---- MODULE Spec2Model ----
(***************************************************************************)
(* L-BERT (modeling.py): construction of BertModel as a state machine, and *)
(* the numerics of one attention_layer call in fixed-point arithmetic.     *)
(*                                                                         *)
(* Tensors whose values come from learned weights are symbolic records     *)
(* (which operation produced them from which operands, and their shape).   *)
(* Masks, margins, scores and probabilities are computed numerically.      *)
(* Python indices are 0-based, the model's are 1-based; every formula of   *)
(* the code used here depends only on index differences.                   *)
(***************************************************************************)
EXTENDS Integers, Sequences, FiniteSets, TLC

(* ----------------------------- bounds ---------------------------------- *)
\* largest batch size of the inputs drawn
MaxBatch == 2
\* largest sequence length of the inputs drawn
MaxSeq == 3

(* ------------------------ configurations drawn ------------------------- *)
\* a BertConfig attribute the instance does not have (BertConfig.__init__
\* never assigns cluster_size; only from_dict can add it)
NoAttr == 0 - 1

\* dropout rates are held in percent: 10 is the 0.1 of the constructor's
\* defaults
DefaultDropoutProb == 10
OtherDropoutProb == 20

HeadCounts == {1, 2, 3}
LayerCounts == {0, 1, 2}
PositionCaps == {2, 512}
ClusterSizes == {NoAttr, 3}

\* the configuration of the BertModel docstring example
DocConfigs ==
  [vocab_size : {32000},
   hidden_size : {512},
   num_hidden_layers : {8},
   num_attention_heads : {6},
   intermediate_size : {1024},
   max_position_embeddings : {512},
   hidden_dropout_prob : {DefaultDropoutProb},
   attention_probs_dropout_prob : {DefaultDropoutProb},
   cluster_size : ClusterSizes]

\* small configurations
SmallConfigs ==
  [vocab_size : {5},
   hidden_size : {4},
   num_hidden_layers : LayerCounts,
   num_attention_heads : HeadCounts,
   intermediate_size : {8},
   max_position_embeddings : PositionCaps,
   hidden_dropout_prob : {DefaultDropoutProb},
   attention_probs_dropout_prob : {OtherDropoutProb},
   cluster_size : ClusterSizes]

\* BertConfig: the attributes the forward construction reads
Configs == DocConfigs \cup SmallConfigs

\* layer_def: the positional flags BertModel reads, indices 0, 2 and 3 of
\* the code at 1, 3 and 4 here (index 1 of the code is never read)
LayerDefs == {ld \in [1..4 -> BOOLEAN] : ld[2] = FALSE}

\* an optional argument that was not passed
None == << >>

\* a 2D mask of shape [b, l] with entries 0 or 1
Masks(b, l) == [1..b -> [1..l -> {0, 1}]]

\* the input masks of shape [b, l] a padded batch has: in every row ones
\* for the tokens, then zeros for the padding
PaddedMasks(b, l) ==
  {m \in Masks(b, l) :
     \A x \in 1..b : \A y \in 1..(l - 1) : m[x][y] >= m[x][y + 1]}

\* tf.ones(shape=[batch_size, seq_length])
Ones(b, l) == [x \in 1..b |-> [y \in 1..l |-> 1]]

\* no tensor assigned yet
NoTensor == [op |-> "unset"]

\* no BertModel was built before
NoModel == [op |-> "none"]

\* a context_ids tensor, named by its first id
ContextIds(first) == [op |-> "context_ids", first |-> first]

\* no call of attention_layer came before
NoCall == [from_seq_length |-> 0]

VARIABLES
  caller_config,       \* the BertConfig object the caller holds
  is_training,         \* the is_training argument
  config,              \* the name `config` inside the callee: the caller's
                       \* object, then BertModel's deep copy of it
  layer_def,           \* the feature flags
  input_shape,         \* static shape of input_ids: <<batch_size, seq_length>>
  input_mask,          \* the input_mask argument, then its default
  pc,                  \* position inside BertModel.__init__
  error,               \* the exception that ended the construction
  embedding_output,    \* self.embedding_output
  attention_mask,      \* the 3D mask handed to transformer_model
  attention_head_size, \* transformer_model's per-head width
  prev_output,         \* transformer_model's running hidden state
  all_layer_outputs,   \* transformer_model's retained outputs
  layer_idx,           \* transformer_model's loop counter
  all_encoder_layers,  \* self.all_encoder_layers
  sequence_output,     \* self.sequence_output
  pooled_output,       \* self.pooled_output
  entry,               \* the function the caller invoked
  do_return_all_layers,\* transformer_model's flag
  final_outputs,       \* transformer_model's return value
  context_ids,         \* the context_ids argument
  context_mask,        \* the context_mask argument, then its default
  kernel_size,         \* the kernel_size argument
  sub_attention_mask,  \* the 3D mask built from context_mask
  self_attrs,          \* the names of the attributes assigned on self
  prev_model,          \* the outputs of an earlier BertModel, for comparison
  \* one call of attention_layer, for one batch element and one head
  att_pc,              \* position inside attention_layer
  from_seq_length,     \* F
  to_seq_length,       \* T
  size_per_head,       \* H
  query_layer,         \* the head's query vectors, one per from-position
  key_layer,           \* the head's key vectors, one per to-position
  attention_scores,    \* the running [F, T] scores
  margin,              \* marg_dist before the softmax (the margin matrix)
  marg_dist,           \* the bias added to the raw scores
  adder,               \* the mask penalty
  attention_probs,     \* the softmax of the final scores
  prev_call,           \* what the previous call of attention_layer added
  \* one call of a utility function
  util_fn,             \* the function called
  util_args,           \* its arguments
  util_pc,             \* "call" before it runs, "returned" after
  util_result          \* what it returned or raised

modelVars ==
  << caller_config, is_training, config, layer_def, input_shape, input_mask, pc, error, embedding_output,
     attention_mask, attention_head_size, prev_output, all_layer_outputs,
     layer_idx, all_encoder_layers, sequence_output, pooled_output, entry,
     do_return_all_layers, final_outputs, context_ids, context_mask,
     kernel_size, sub_attention_mask, self_attrs, prev_model >>

attnVars ==
  << att_pc, from_seq_length, to_seq_length, size_per_head, query_layer,
     key_layer, attention_scores, margin, marg_dist, adder, attention_probs,
     prev_call >>

utilVars == << util_fn, util_args, util_pc, util_result >>

vars == << modelVars, attnVars, utilVars >>

(* ------------------------ results of a call ---------------------------- *)
\* the call raised one of the exceptions excs
Raised(excs) == [op |-> "raise", excs |-> excs]

\* the call returned the plain (non-tensor) value v
Returned(v) == [op |-> "return", value |-> v]

(* ------------------------ shape utilities ------------------------------ *)
\* expected_rank: not given, a Python integer, or a list of integers
NoRank == [kind |-> "none"]
IntRank(r) == [kind |-> "int", rank |-> r]
ListRank(rs) == [kind |-> "list", ranks |-> rs]

\* assert_rank's mutant: an integer expected_rank is taken as a lower bound
ExpectedRankDict_AtLeast(expected_rank) ==
  IF expected_rank.kind = "int"
    THEN {r \in 0..8 : r >= expected_rank.rank}
    ELSE {expected_rank.ranks[k] : k \in DOMAIN expected_rank.ranks}

\* assert_rank's expected_rank_dict: its keys
ExpectedRankDict(expected_rank) ==
  IF expected_rank.kind = "int"
    THEN {expected_rank.rank}
    ELSE {expected_rank.ranks[k] : k \in DOMAIN expected_rank.ranks}

\* assert_rank: raises if the actual rank is no key of expected_rank_dict,
\* returns None otherwise
assert_rank(tensor, expected_rank) ==
  LET actual_rank == Len(tensor.shape)
  IN IF actual_rank \notin ExpectedRankDict(expected_rank)
       THEN Raised({"ValueError"})
       ELSE Returned(<< >>)

\* get_shape_list for a tensor of static shape
get_shape_list(tensor, expected_rank) ==
  IF expected_rank.kind # "none" /\ assert_rank(tensor, expected_rank).op = "raise"
    THEN assert_rank(tensor, expected_rank)
    ELSE Returned(tensor.shape)

\* reshape_to_matrix: a rank-2 tensor is returned as it is, a tensor of
\* higher rank is reshaped to [-1, width]
ProductOf(shape) ==
  LET RECURSIVE P(_)
      P(k) == IF k = 0 THEN 1 ELSE shape[k] * P(k - 1)
  IN P(Len(shape))

Reshape(t, shape) == [op |-> "reshape", input |-> t, shape |-> shape]

reshape_to_matrix(input_tensor) ==
  LET ndims == Len(input_tensor.shape)
      width == input_tensor.shape[ndims]
  IN IF ndims < 2
       THEN Raised({"ValueError"})
       ELSE IF ndims = 2
         THEN input_tensor
         ELSE Reshape(input_tensor,
                      << ProductOf(input_tensor.shape) \div width, width >>)

\* mutant: the width is put first, the original leading dimensions after it
reshape_from_matrix_WidthFirst(output_tensor, orig_shape_list) ==
  IF Len(orig_shape_list) = 2
    THEN output_tensor
    ELSE LET width == output_tensor.shape[Len(output_tensor.shape)]
         IN Reshape(output_tensor,
                    << width >>
                      \o SubSeq(orig_shape_list, 1, Len(orig_shape_list) - 1))

\* reshape_from_matrix: back to orig_dims + [width]
reshape_from_matrix(output_tensor, orig_shape_list) ==
  IF Len(orig_shape_list) = 2
    THEN output_tensor
    ELSE LET width == output_tensor.shape[Len(output_tensor.shape)]
         IN Reshape(output_tensor,
                    Append(SubSeq(orig_shape_list, 1, Len(orig_shape_list) - 1),
                           width))

(* ------------------------ embeddings ----------------------------------- *)
\* layer_def[k] of the code
LayerDef(k) == layer_def[k + 1]

\* embedding_lookup / cluster_embedding_lookup: [B, L] ids -> [B, L, H]
Lookup(table, shape, embedding_size) ==
  [op |-> "embedding_lookup", table |-> table,
   shape |-> << shape[1], shape[2], embedding_size >>]

\* the sum of embedding channels, named by their tables
ChannelSum(channels, shape) ==
  [op |-> "sum", channels |-> channels, shape |-> shape]

\* mutant: the range check is dropped and the slice truncates silently
PositionRangeOk_NoCheck(seq_length, max_position_embeddings) ==
  TRUE

\* the range check of the position channel: seq_length against the
\* capacity of the position table
PositionRangeOk(seq_length, max_position_embeddings) ==
  seq_length <= max_position_embeddings

\* the exception a violated range check surfaces as: the assertion op of
\* assert_less_equal or the shape error of the slice that follows it
RangeErrors == {"InvalidArgumentError", "ValueError"}

\* the channels embedding_postprocessor adds to its input
AddedChannels(use_token_type, use_position_embeddings, use_entity_embedding) ==
  (IF use_token_type THEN {"token_type_embeddings"} ELSE {})
    \cup (IF use_position_embeddings THEN {"position_embeddings"} ELSE {})
    \cup (IF use_entity_embedding THEN {"entity_embeddings"} ELSE {})

\* dropout_prob is None
NoProb == 0 - 1

\* mutant: dropout is skipped only when no probability is given
dropout_OnlyNone(input_tensor, dropout_prob) ==
  IF dropout_prob = NoProb
    THEN input_tensor
    ELSE [op |-> "tf.nn.dropout", input |-> input_tensor,
          keep_prob |-> 100 - dropout_prob, shape |-> input_tensor.shape]

\* dropout: the input itself for None or 0.0, tf.nn.dropout with keep
\* probability 1.0 - dropout_prob otherwise
dropout(input_tensor, dropout_prob) ==
  IF dropout_prob = NoProb \/ dropout_prob = 0
    THEN input_tensor
    ELSE [op |-> "tf.nn.dropout", input |-> input_tensor,
          keep_prob |-> 100 - dropout_prob, shape |-> input_tensor.shape]

\* layer normalization over the last dimension
layer_norm(input_tensor) ==
  [op |-> "layer_norm", input |-> input_tensor, shape |-> input_tensor.shape]

\* mutant: dropout first, layer normalization after it
layer_norm_and_dropout_DropoutFirst(input_tensor, dropout_prob) ==
  layer_norm(dropout(input_tensor, dropout_prob))

\* layer_norm_and_dropout
layer_norm_and_dropout(input_tensor, dropout_prob) ==
  dropout(layer_norm(input_tensor), dropout_prob)

\* embedding_postprocessor; token_type_ids and entity_type_ids are TRUE when
\* the argument is given and FALSE when it is None
embedding_postprocessor(input_tensor, use_token_type, token_type_ids, use_position_embeddings, max_position_embeddings, use_entity_embedding, entity_type_ids, dropout_prob) ==
  IF get_shape_list(input_tensor, IntRank(3)).op = "raise"
    THEN Raised({"ValueError"})
  ELSE IF use_token_type /\ ~token_type_ids
    THEN Raised({"ValueError"})
  ELSE IF use_position_embeddings
            /\ ~PositionRangeOk(input_tensor.shape[2], max_position_embeddings)
    THEN Raised(RangeErrors)
  ELSE IF use_entity_embedding /\ ~entity_type_ids
    THEN Raised({"ValueError"})
  ELSE layer_norm_and_dropout(
         ChannelSum(input_tensor.channels
                      \cup AddedChannels(use_token_type,
                                         use_position_embeddings,
                                         use_entity_embedding),
                    input_tensor.shape),
         dropout_prob)

(* ------------------------ attention mask ------------------------------- *)
\* create_attention_mask_from_input_mask: to_mask reshaped to [B, T, 1]
\* times to_mask reshaped to [B, 1, T]
create_attention_mask_from_input_mask(from_shape, to_mask) ==
  LET batch_size == from_shape[1]
      to_len == Len(to_mask[1])
  IN [b \in 1..batch_size |->
       [i \in 1..to_len |->
         [j \in 1..to_len |-> to_mask[b][i] * to_mask[b][j]]]]

(* ------------------------ transformer stack ---------------------------- *)
\* mutant: the check only asks for at least one unit of width per head
HiddenSizeIsMultiple_AtLeast(hidden_size, num_attention_heads) ==
  hidden_size >= num_attention_heads

\* the divisibility check of transformer_model
HiddenSizeIsMultiple(hidden_size, num_attention_heads) ==
  hidden_size % num_attention_heads = 0

\* int(hidden_size / num_attention_heads)
AttentionHeadSize(hidden_size, num_attention_heads) ==
  hidden_size \div num_attention_heads

\* mutant: every iteration consumes the flattened input tensor
LayerInput_AlwaysFirst == reshape_to_matrix(embedding_output)

\* the tensor the layer loop hands to iteration layer_idx
LayerInput == prev_output

\* one iteration of the layer loop: self-attention over layer_input,
\* projection, residual and layer norm, feed-forward, residual and layer norm
TransformerLayerOutput(idx, layer_input) ==
  [op |-> "transformer_layer",
   layer |-> idx,
   layer_input |-> layer_input,
   num_attention_heads |-> config.num_attention_heads,
   size_per_head |-> attention_head_size,
   hidden_dropout_prob |-> config.hidden_dropout_prob,
   attention_probs_dropout_prob |-> config.attention_probs_dropout_prob,
   shape |-> layer_input.shape]

\* mutant: with no layer output to return, the input is returned as the
\* only layer
FinalOutputs_WithInput(outputs, shape) ==
  IF Len(outputs) = 0
    THEN << [op |-> "input", shape |-> shape] >>
    ELSE [k \in 1..Len(outputs) |-> reshape_from_matrix(outputs[k], shape)]

\* all_layer_outputs reshaped back to the input's shape
FinalOutputs(outputs, shape) ==
  [k \in 1..Len(outputs) |-> reshape_from_matrix(outputs[k], shape)]

(* ------------------------ BertConfig ----------------------------------- *)
\* a Python None held by an attribute
NoneValue == 0 - 2

\* the parameters of BertConfig.__init__ and the defaults of its signature
\* (vocab_size has none); initializer_range is held in thousandths
ConfigKeys ==
  {"vocab_size", "hidden_size", "num_hidden_layers", "num_attention_heads",
   "intermediate_size", "hidden_act", "hidden_dropout_prob",
   "attention_probs_dropout_prob", "max_position_embeddings",
   "type_vocab_size", "initializer_range"}

ConfigDefaults ==
  [hidden_size |-> 768,
   num_hidden_layers |-> 12,
   num_attention_heads |-> 12,
   intermediate_size |-> 3072,
   hidden_act |-> "gelu",
   hidden_dropout_prob |-> DefaultDropoutProb,
   attention_probs_dropout_prob |-> DefaultDropoutProb,
   max_position_embeddings |-> 512,
   type_vocab_size |-> 16,
   initializer_range |-> 20]

\* the value a caller or a dictionary gives for a key, each different from
\* the default
GivenValues ==
  [vocab_size |-> 5,
   hidden_size |-> 4,
   num_hidden_layers |-> 2,
   num_attention_heads |-> 2,
   intermediate_size |-> 8,
   hidden_act |-> "relu",
   hidden_dropout_prob |-> OtherDropoutProb,
   attention_probs_dropout_prob |-> OtherDropoutProb,
   max_position_embeddings |-> 2,
   type_vocab_size |-> 2,
   initializer_range |-> 10,
   cluster_size |-> 3]

\* keyword arguments / dictionaries: any subset of the keys, cluster_size
\* among them
KeywordSets == {[k \in keys |-> GivenValues[k]] : keys \in SUBSET DOMAIN GivenValues}

\* mutant: the constructor gives cluster_size a default
BertConfig_WithClusterSize(kwargs) ==
  IF "vocab_size" \notin DOMAIN kwargs \/ DOMAIN kwargs \ ConfigKeys # {}
    THEN Raised({"TypeError"})
    ELSE [op |-> "BertConfig",
          attrs |-> [k \in ConfigKeys \cup {"cluster_size"} |->
                       IF k \in DOMAIN kwargs THEN kwargs[k]
                       ELSE IF k = "cluster_size" THEN 3
                       ELSE ConfigDefaults[k]]]

\* BertConfig(**kwargs): Python rejects a call without vocab_size or with a
\* keyword the signature lacks; the instance gets the eleven attributes of
\* the signature and no other
BertConfig(kwargs) ==
  IF "vocab_size" \notin DOMAIN kwargs \/ DOMAIN kwargs \ ConfigKeys # {}
    THEN Raised({"TypeError"})
    ELSE [op |-> "BertConfig",
          attrs |-> [k \in ConfigKeys |->
                       IF k \in DOMAIN kwargs THEN kwargs[k]
                       ELSE ConfigDefaults[k]]]

\* BertConfig.from_dict(json_object): BertConfig(vocab_size=None), then
\* every key of the dictionary written into the instance's __dict__
from_dict(json_object) ==
  LET made == BertConfig([vocab_size |-> NoneValue])
  IN [op |-> "BertConfig",
      attrs |-> [k \in DOMAIN made.attrs \cup DOMAIN json_object |->
                   IF k \in DOMAIN json_object THEN json_object[k]
                   ELSE made.attrs[k]]]

(* ------------------------ initial states ------------------------------- *)
Shapes == (1..MaxBatch) \X (1..MaxSeq)

\* shapes of an input_ids tensor whose rank is not 2
OtherRankShapes == {<< 2 >>, << 1, 2, 1 >>}

\* mutant: the caller's object itself has its rates zeroed
CallerConfigAfter_Aliased(c, training) ==
  IF training
    THEN c
    ELSE [c EXCEPT !.hidden_dropout_prob = 0,
                   !.attention_probs_dropout_prob = 0]

\* the caller's object after the construction: `config` was rebound to a
\* deep copy before any assignment to its attributes
CallerConfigAfter(c, training) == c

\* copy.deepcopy(config), its dropout rates zeroed when not training
PrivateConfig(c, training) ==
  IF training
    THEN c
    ELSE [c EXCEPT !.hidden_dropout_prob = 0,
                   !.attention_probs_dropout_prob = 0]

\* BertModel(config, is_training, layer_def, ..., input_ids, ..., input_mask)
InitBertModel ==
  /\ entry = "BertModel"
  /\ config \in Configs
  /\ is_training \in BOOLEAN
  /\ layer_def \in LayerDefs
  /\ \/ /\ input_shape \in Shapes
        /\ input_mask \in
             {None} \cup PaddedMasks(input_shape[1], input_shape[2])
     \/ /\ input_shape \in OtherRankShapes
        /\ input_mask = None
  /\ pc = "start"
  /\ embedding_output = NoTensor
  /\ attention_mask = None
  /\ do_return_all_layers = TRUE

\* transformer_model(input_tensor, attention_mask, ..., do_return_all_layers)
InitTransformerModel ==
  /\ entry = "transformer_model"
  /\ config \in Configs
  /\ is_training = TRUE
  /\ layer_def = [k \in 1..4 |-> FALSE]
  /\ input_shape \in Shapes
  /\ input_mask = None
  /\ pc = "transformer_model"
  /\ \E width \in {4, 512} :
       embedding_output =
         [op |-> "input", shape |-> << input_shape[1], input_shape[2], width >>]
  /\ attention_mask \in
       {None,
        create_attention_mask_from_input_mask(
          input_shape, Ones(input_shape[1], input_shape[2]))}
  /\ do_return_all_layers \in BOOLEAN

\* no call of attention_layer is being followed
AttnIdle ==
  /\ att_pc = "idle"
  /\ from_seq_length = 0
  /\ to_seq_length = 0
  /\ size_per_head = 0
  /\ query_layer = << >>
  /\ key_layer = << >>
  /\ attention_scores = << >>
  /\ margin = << >>
  /\ marg_dist = << >>
  /\ adder = << >>
  /\ attention_probs = << >>
  /\ prev_call = NoCall

\* no utility function is being followed
UtilIdle ==
  /\ util_fn = "none"
  /\ util_args = NoTensor
  /\ util_pc = "idle"
  /\ util_result = NoTensor

\* the context arguments of the reference call: context_mask left out
ReferenceContext ==
  /\ context_ids = ContextIds(7)
  /\ context_mask = None
  /\ kernel_size = << 3 >>

\* what the fields of a run hold before it starts
RunStart ==
  /\ error = "none"
  /\ attention_head_size = 0
  /\ prev_output = NoTensor
  /\ all_layer_outputs = << >>
  /\ layer_idx = 0
  /\ all_encoder_layers = None
  /\ sequence_output = NoTensor
  /\ pooled_output = NoTensor
  /\ final_outputs = None
  /\ sub_attention_mask = None
  /\ self_attrs = {}
  /\ prev_model = NoModel

Init ==
  /\ InitBertModel \/ InitTransformerModel
  /\ ReferenceContext
  /\ sub_attention_mask = None
  /\ self_attrs = {}
  /\ prev_model = NoModel
  /\ caller_config = config
  /\ UtilIdle
  /\ error = "none"
  /\ attention_head_size = 0
  /\ prev_output = NoTensor
  /\ all_layer_outputs = << >>
  /\ layer_idx = 0
  /\ all_encoder_layers = None
  /\ sequence_output = NoTensor
  /\ pooled_output = NoTensor
  /\ final_outputs = None
  /\ AttnIdle

(* ------------------------ BertModel.__init__ --------------------------- *)
Raise(exc) ==
  /\ pc' = "error"
  /\ error' = exc

\* the private copy of the configuration, the rank check of input_ids and
\* the default masks, then the layer_def[0] gate
BertModelInit ==
  /\ pc = "start"
  /\ config' = PrivateConfig(config, is_training)
  /\ caller_config' = CallerConfigAfter(caller_config, is_training)
  /\ LET input_ids == [op |-> "input_ids", shape |-> input_shape]
     IN IF get_shape_list(input_ids, IntRank(2)).op = "raise"
          THEN /\ Raise("ValueError")
               /\ UNCHANGED input_mask
          ELSE /\ input_mask' = IF input_mask = None
                                  THEN Ones(input_shape[1], input_shape[2])
                                  ELSE input_mask
               /\ pc' = IF LayerDef(0) THEN "embeddings" ELSE "done"
               /\ error' = error
  /\ UNCHANGED << layer_def, input_shape, embedding_output,
                  attention_mask, attention_head_size, prev_output,
                  all_layer_outputs, layer_idx, all_encoder_layers,
                  sequence_output, pooled_output, entry, do_return_all_layers,
                  final_outputs >>
  /\ UNCHANGED << is_training, attnVars, utilVars >>
  /\ context_mask' =
       IF Len(input_shape) = 2 /\ context_mask = None
         THEN Ones(input_shape[1], input_shape[2])
         ELSE context_mask
  /\ UNCHANGED << context_ids, kernel_size, sub_attention_mask, self_attrs,
                  prev_model >>

\* word lookup, then the cluster lookup (which reads config.cluster_size),
\* then their sum
EmbeddingLookups ==
  /\ pc = "embeddings"
  /\ LET word_output == Lookup("word_embeddings", input_shape, config.hidden_size)
         cluster_output ==
           Lookup("cluster_embeddings", input_shape, config.hidden_size)
     IN IF config.cluster_size = NoAttr
          THEN /\ embedding_output' = word_output
               /\ Raise("AttributeError")
          ELSE /\ embedding_output' =
                    ChannelSum({"word_embeddings", "cluster_embeddings"},
                               word_output.shape)
               /\ pc' = "postprocess"
               /\ error' = error
  /\ UNCHANGED << config, layer_def, input_shape, input_mask, attention_mask,
                  attention_head_size, prev_output, all_layer_outputs,
                  layer_idx, all_encoder_layers, sequence_output,
                  pooled_output, entry, do_return_all_layers, final_outputs >>
  /\ UNCHANGED << caller_config, is_training, attnVars, utilVars >>
  /\ self_attrs' =
       self_attrs \cup {"word_output", "embedding_table", "embedding_output"}
         \cup (IF config.cluster_size = NoAttr
                THEN {}
                ELSE {"cluster_output", "cluster_embedding_table"})
  /\ UNCHANGED << context_ids, context_mask, kernel_size, sub_attention_mask,
                  prev_model >>

\* mutant: the entity channel is switched by layer_def[1]
UseEntityEmbedding_FromLayerDef == LayerDef(1)

\* the use_entity_embedding argument of BertModel's call of
\* embedding_postprocessor: the literal False
UseEntityEmbedding == FALSE

\* embedding_postprocessor as BertModel calls it; entity_type_ids is
\* context_mask, which is never None here
EmbeddingPostprocessor ==
  /\ pc = "postprocess"
  /\ LET output ==
           embedding_postprocessor(
             embedding_output, LayerDef(2), TRUE, LayerDef(3),
             config.max_position_embeddings, UseEntityEmbedding, TRUE,
             config.hidden_dropout_prob)
     IN IF output.op = "raise"
          THEN /\ \E exc \in output.excs : Raise(exc)
               /\ UNCHANGED embedding_output
          ELSE /\ embedding_output' = output
               /\ pc' = "encoder"
               /\ error' = error
  /\ UNCHANGED << config, layer_def, input_shape, input_mask, attention_mask,
                  attention_head_size, prev_output, all_layer_outputs,
                  layer_idx, all_encoder_layers, sequence_output,
                  pooled_output, entry, do_return_all_layers, final_outputs >>
  /\ UNCHANGED << caller_config, is_training, attnVars, utilVars >>
  /\ UNCHANGED << context_ids, context_mask, kernel_size, sub_attention_mask,
                  self_attrs, prev_model >>

\* the 3D attention mask built from input_ids' shape and input_mask
CreateAttentionMask ==
  /\ pc = "encoder"
  /\ attention_mask' =
       create_attention_mask_from_input_mask(input_shape, input_mask)
  /\ pc' = "transformer_model"
  /\ UNCHANGED << config, layer_def, input_shape, input_mask, error,
                  embedding_output, attention_head_size, prev_output,
                  all_layer_outputs, layer_idx, all_encoder_layers,
                  sequence_output, pooled_output, entry, do_return_all_layers,
                  final_outputs >>
  /\ UNCHANGED << caller_config, is_training, attnVars, utilVars >>
  /\ sub_attention_mask' =
       create_attention_mask_from_input_mask(input_shape, context_mask)
  /\ UNCHANGED << context_ids, context_mask, kernel_size, self_attrs,
                  prev_model >>

(* ------------------------ transformer_model ---------------------------- *)
\* the checks at entry and the flattening of the input
TransformerModelEnter ==
  /\ pc = "transformer_model"
  /\ IF ~HiddenSizeIsMultiple(config.hidden_size, config.num_attention_heads)
       THEN /\ Raise("ValueError")
            /\ UNCHANGED << attention_head_size, prev_output >>
       ELSE IF embedding_output.shape[3] # config.hidden_size
         THEN /\ Raise("ValueError")
              /\ attention_head_size' =
                   AttentionHeadSize(config.hidden_size,
                                     config.num_attention_heads)
              /\ UNCHANGED prev_output
         ELSE /\ attention_head_size' =
                   AttentionHeadSize(config.hidden_size,
                                     config.num_attention_heads)
              /\ prev_output' = reshape_to_matrix(embedding_output)
              /\ pc' = "layers"
              /\ error' = error
  /\ UNCHANGED << config, layer_def, input_shape, input_mask,
                  embedding_output, attention_mask, all_layer_outputs,
                  layer_idx, all_encoder_layers, sequence_output,
                  pooled_output, entry, do_return_all_layers, final_outputs >>
  /\ UNCHANGED << caller_config, is_training, attnVars, utilVars >>
  /\ UNCHANGED << context_ids, context_mask, kernel_size, sub_attention_mask,
                  self_attrs, prev_model >>

\* one iteration of `for layer_idx in range(num_hidden_layers)`
TransformerLayer ==
  /\ pc = "layers"
  /\ layer_idx < config.num_hidden_layers
  /\ IF attention_mask = None
       THEN \* attention_layer casts attention_mask before testing it
            /\ Raise("ValueError")
            /\ UNCHANGED << prev_output, all_layer_outputs, layer_idx >>
       ELSE LET layer_output == TransformerLayerOutput(layer_idx, LayerInput)
            IN /\ prev_output' = layer_output
               /\ all_layer_outputs' = Append(all_layer_outputs, layer_output)
               /\ layer_idx' = layer_idx + 1
               /\ UNCHANGED << pc, error >>
  /\ UNCHANGED << config, layer_def, input_shape, input_mask,
                  embedding_output, attention_mask, attention_head_size,
                  all_encoder_layers, sequence_output, pooled_output, entry,
                  do_return_all_layers, final_outputs >>
  /\ UNCHANGED << caller_config, is_training, attnVars, utilVars >>
  /\ UNCHANGED << context_ids, context_mask, kernel_size, sub_attention_mask,
                  self_attrs, prev_model >>

\* the loop is exhausted: the return value
TransformerModelReturn ==
  /\ pc = "layers"
  /\ layer_idx = config.num_hidden_layers
  /\ final_outputs' =
       IF do_return_all_layers
         THEN FinalOutputs(all_layer_outputs, embedding_output.shape)
         ELSE reshape_from_matrix(prev_output, embedding_output.shape)
  /\ pc' = IF entry = "BertModel" THEN "sequence_output" ELSE "done"
  /\ UNCHANGED << config, layer_def, input_shape, input_mask, error,
                  embedding_output, attention_mask, attention_head_size,
                  prev_output, all_layer_outputs, layer_idx,
                  all_encoder_layers, sequence_output, pooled_output, entry,
                  do_return_all_layers >>
  /\ UNCHANGED << caller_config, is_training, attnVars, utilVars >>
  /\ UNCHANGED << context_ids, context_mask, kernel_size, sub_attention_mask,
                  self_attrs, prev_model >>

(* ------------------------ BertModel.__init__, continued ---------------- *)
\* self.all_encoder_layers and self.sequence_output = all_encoder_layers[-1]
SelectSequenceOutput ==
  /\ pc = "sequence_output"
  /\ all_encoder_layers' = final_outputs
  /\ IF Len(final_outputs) = 0
       THEN /\ Raise("IndexError")
            /\ UNCHANGED sequence_output
       ELSE /\ sequence_output' = final_outputs[Len(final_outputs)]
            /\ pc' = "pooler"
            /\ error' = error
  /\ UNCHANGED << config, layer_def, input_shape, input_mask,
                  embedding_output, attention_mask, attention_head_size,
                  prev_output, all_layer_outputs, layer_idx, pooled_output,
                  entry, do_return_all_layers, final_outputs >>
  /\ UNCHANGED << caller_config, is_training, attnVars, utilVars >>
  /\ self_attrs' =
       self_attrs \cup {"all_encoder_layers"}
         \cup (IF Len(final_outputs) = 0 THEN {} ELSE {"sequence_output"})
  /\ UNCHANGED << context_ids, context_mask, kernel_size, sub_attention_mask,
                  prev_model >>

\* the pooler: dense + tanh over the hidden state of the first token
Pooler ==
  /\ pc = "pooler"
  /\ pooled_output' =
       [op |-> "dense_tanh",
        input |-> [op |-> "first_token", input |-> sequence_output,
                   shape |-> << sequence_output.shape[1],
                                sequence_output.shape[3] >>],
        shape |-> << sequence_output.shape[1], config.hidden_size >>]
  /\ pc' = "done"
  /\ UNCHANGED << config, layer_def, input_shape, input_mask, error,
                  embedding_output, attention_mask, attention_head_size,
                  prev_output, all_layer_outputs, layer_idx,
                  all_encoder_layers, sequence_output, entry,
                  do_return_all_layers, final_outputs >>
  /\ UNCHANGED << caller_config, is_training, attnVars, utilVars >>
  /\ self_attrs' = self_attrs \cup {"pooled_output"}
  /\ UNCHANGED << context_ids, context_mask, kernel_size, sub_attention_mask,
                  prev_model >>

(* ------------------------ BertModel accessors -------------------------- *)
\* mutant: an attribute that was never assigned reads as None
Attribute_OrNone(name, value) ==
  IF name \in self_attrs THEN Returned(value) ELSE Returned(None)

\* `return self.<name>`: AttributeError when the attribute was never
\* assigned
Attribute(name, value) ==
  IF name \in self_attrs THEN Returned(value) ELSE Raised({"AttributeError"})

\* self.embedding_table: the word embedding variable
EmbeddingTable ==
  [op |-> "variable", name |-> "word_embeddings",
   shape |-> << config.vocab_size, config.hidden_size >>]

get_pooled_output == Attribute("pooled_output", pooled_output)

get_sequence_output == Attribute("sequence_output", sequence_output)

get_all_encoder_layers == Attribute("all_encoder_layers", all_encoder_layers)

get_embedding_output == Attribute("embedding_output", embedding_output)

get_embedding_table == Attribute("embedding_table", EmbeddingTable)

(* ------------------------ a second BertModel --------------------------- *)
\* the context arguments drawn: context_mask None, all ones or all zeros
ContextMasks(b, l) ==
  {None, Ones(b, l), [x \in 1..b |-> [y \in 1..l |-> 0]]}

\* the input_mask arguments drawn for the pair: None, or the last position
\* of every sequence padded
TwinMasks(b, l) ==
  {None, [x \in 1..b |-> [y \in 1..l |-> IF y < l THEN 1 ELSE 0]]}

\* a BertModel with the embeddings, encoder and pooler enabled, any context
\* arguments and any layer_def[1]
InitTwin ==
  /\ entry = "BertModel"
  /\ config \in {c \in SmallConfigs : c.cluster_size # NoAttr}
  /\ caller_config = config
  /\ is_training = TRUE
  /\ layer_def \in {ld \in [1..4 -> BOOLEAN] : ld[1]}
  /\ input_shape \in Shapes
  /\ input_mask \in TwinMasks(input_shape[1], input_shape[2])
  /\ pc = "start"
  /\ embedding_output = NoTensor
  /\ attention_mask = None
  /\ do_return_all_layers = TRUE
  /\ context_ids \in {ContextIds(7), ContextIds(789)}
  /\ context_mask \in ContextMasks(input_shape[1], input_shape[2])
  /\ kernel_size \in {<< 3 >>, << 5 >>}
  /\ RunStart
  /\ UtilIdle
  /\ AttnIdle

\* the outputs of the finished BertModel and the context arguments it was
\* given
ModelSummary ==
  [op |-> "BertModel",
   embedding_output |-> embedding_output,
   all_encoder_layers |-> all_encoder_layers,
   sequence_output |-> sequence_output,
   pooled_output |-> pooled_output,
   context_ids |-> context_ids,
   context_mask |-> context_mask,
   kernel_size |-> kernel_size,
   layer_def |-> layer_def]

\* a second BertModel is built from the caller's configuration and the same
\* input_ids, input_mask, token_type_ids and flags, with the reference
\* context arguments and layer_def[1] off (the mask is handed over as it
\* stood after line 188; an all-ones mask and an omitted one are the same
\* from there on)
BertModelAgain ==
  /\ entry = "BertModel"
  /\ pc = "done"
  /\ LayerDef(0)
  /\ prev_model = NoModel
  /\ prev_model' = ModelSummary
  /\ config' = caller_config
  /\ layer_def' = [layer_def EXCEPT ![2] = FALSE]
  /\ context_ids' = ContextIds(7)
  /\ context_mask' = None
  /\ kernel_size' = << 3 >>
  /\ pc' = "start"
  /\ embedding_output' = NoTensor
  /\ attention_mask' = None
  /\ attention_head_size' = 0
  /\ prev_output' = NoTensor
  /\ all_layer_outputs' = << >>
  /\ layer_idx' = 0
  /\ all_encoder_layers' = None
  /\ sequence_output' = NoTensor
  /\ pooled_output' = NoTensor
  /\ final_outputs' = None
  /\ sub_attention_mask' = None
  /\ self_attrs' = {}
  /\ UNCHANGED << caller_config, is_training, input_shape, input_mask, error,
                  entry, do_return_all_layers, attnVars, utilVars >>

Next ==
  \/ BertModelInit
  \/ EmbeddingLookups
  \/ EmbeddingPostprocessor
  \/ CreateAttentionMask
  \/ TransformerModelEnter
  \/ TransformerLayer
  \/ TransformerModelReturn
  \/ SelectSequenceOutput
  \/ Pooler

Spec == Init /\ [][Next]_vars

\* two BertModels in a row
NextTwin == Next \/ BertModelAgain

SpecTwin == InitTwin /\ [][NextTwin]_vars

(* ======================== attention_layer ============================== *)
(* One call, followed for one batch element and one head: every operation  *)
(* between the raw scores and the probabilities is elementwise or a        *)
(* softmax over the last axis, so each (batch, head) slice is computed     *)
(* alone. Real numbers are fixed-point integers: scores in thousandths,    *)
(* exponentials in ten-thousandths, probabilities in hundred-thousandths.  *)

\* largest sequence length of the attention calls drawn
MaxAttnSeq == 2

\* one, as a score / as an exponential / as a probability
Unit == 10^3
ExpOne == 10^4
ProbOne == 10^5

\* the 0.5 of `0.5 - tf.nn.softmax(marg_dist)`
Half == Unit \div 2

\* the -10000.0 of the mask penalty
MaskPenalty == -10000

\* first components of the head's query and key vectors (the other
\* components are zero), and the head widths drawn (squares, so that
\* 1/sqrt(size_per_head) is rational)
QueryValues == {0 - 1, 1}
KeyValues == {0, 2}
HeadSizes == {1, 4}

\* math.sqrt(float(size_per_head))
SqrtOf(h) == CHOOSE r \in 1..h : r * r = h

\* exp(-n) for whole n, in ExpOne
ExpWhole(n) ==
  IF n >= 10 THEN 0
  ELSE << 10000, 3679, 1353, 498, 183, 67, 25, 9, 3, 1 >>[n + 1]

\* exp(-k/10), in ExpOne
ExpTenth(k) ==
  << 10000, 9048, 8187, 7408, 6703, 6065, 5488, 4966, 4493, 4066 >>[k + 1]

\* exp(d / Unit) for d <= 0, in ExpOne: whole part, tenths, and the
\* remainder by 1 - x + x^2/2
ExpFix(d) ==
  LET a == 0 - d
      n == a \div Unit
      k == (a % Unit) \div 100
      q == a % 100
      small == ExpOne - 10 * q + (q * q) \div 200
  IN (((ExpWhole(n) * ExpTenth(k)) \div ExpOne) * small) \div ExpOne

RowMax(row) ==
  CHOOSE m \in {row[j] : j \in DOMAIN row} : \A j \in DOMAIN row : row[j] <= m

RowSum(row) ==
  LET RECURSIVE S(_)
      S(k) == IF k = 0 THEN 0 ELSE row[k] + S(k - 1)
  IN S(Len(row))

\* tf.nn.softmax over a row of scores (in Unit), the result in `one`
SoftmaxRow(row, one) ==
  LET m == RowMax(row)
      e == [j \in DOMAIN row |-> ExpFix(row[j] - m)]
      total == RowSum(e)
  IN [j \in DOMAIN row |-> (e[j] * one + total \div 2) \div total]

\* tf.nn.softmax over the last axis of a matrix
Softmax(matrix, one) ==
  [i \in DOMAIN matrix |-> SoftmaxRow(matrix[i], one)]

\* np.tril(m, 0) and np.triu(m, 0)
Tril(m) == [i \in DOMAIN m |-> [j \in DOMAIN m[i] |-> IF j <= i THEN m[i][j] ELSE 0]]
Triu(m) == [i \in DOMAIN m |-> [j \in DOMAIN m[i] |-> IF j >= i THEN m[i][j] ELSE 0]]

\* dist_attn[index] = dist_array - index
DistAttn(n) == [i \in 1..n |-> [j \in 1..n |-> j - i]]

\* mutant: the lower triangle is not negated
MargDist_Signed(n) ==
  [i \in 1..n |-> [j \in 1..n |->
     Tril(DistAttn(n))[i][j] * 1 + Triu(DistAttn(n))[i][j] * 1]]

\* marg_dist = (np.tril(dist_attn, 0)*-1) + (np.triu(dist_attn, 0)*1)
MargDist(n) ==
  [i \in 1..n |-> [j \in 1..n |->
     Tril(DistAttn(n))[i][j] * (0 - 1) + Triu(DistAttn(n))[i][j] * 1]]

\* mutant: softmax - 0.5
MarginBias_Flipped(marg) ==
  LET sm == Softmax([i \in DOMAIN marg |-> [j \in DOMAIN marg[i] |-> marg[i][j] * Unit]],
                    Unit)
  IN [i \in DOMAIN marg |-> [j \in DOMAIN marg[i] |-> sm[i][j] - Half]]

\* marg_dist = 0.5 - tf.nn.softmax(marg_dist)
MarginBias(marg) ==
  LET sm == Softmax([i \in DOMAIN marg |-> [j \in DOMAIN marg[i] |-> marg[i][j] * Unit]],
                    Unit)
  IN [i \in DOMAIN marg |-> [j \in DOMAIN marg[i] |-> Half - sm[i][j]]]

\* mutant: the bias is not masked but weighted by the raw scores
MaskedBias_ByContent(mask, bias) ==
  [i \in DOMAIN bias |-> [j \in DOMAIN bias[i] |->
     (attention_scores[i][j] * bias[i][j]) \div Unit]]

\* marg_dist = tf.multiply(tf.cast(attention_mask, tf.float32), marg_dist)
MaskedBias(mask, bias) ==
  [i \in DOMAIN bias |-> [j \in DOMAIN bias[i] |-> mask[i][j] * bias[i][j]]]

\* tf.multiply(scores, 1.0 / math.sqrt(float(size_per_head)))
Scaled(scores, h) ==
  [i \in DOMAIN scores |-> [j \in DOMAIN scores[i] |-> scores[i][j] \div SqrtOf(h)]]

\* mutant: the scores are scaled right after the matmul, before the bias
BiasedAndScaled_ScaleFirst(scores, bias, h) ==
  [i \in DOMAIN scores |-> [j \in DOMAIN scores[i] |->
     Scaled(scores, h)[i][j] + bias[i][j]]]

\* attention_scores = (attention_scores + marg_dist), then the scaling
BiasedAndScaled(scores, bias, h) ==
  Scaled([i \in DOMAIN scores |-> [j \in DOMAIN scores[i] |->
            scores[i][j] + bias[i][j]]], h)

\* adder = (1.0 - tf.cast(attention_mask, tf.float32)) * -10000.0
MaskAdder(mask) ==
  [i \in DOMAIN mask |-> [j \in DOMAIN mask[i] |->
     (1 - mask[i][j]) * MaskPenalty * Unit]]

\* tf.matmul(query_layer, key_layer, transpose_b=True) for the head
RawScores(q, k) ==
  [i \in DOMAIN q |-> [j \in DOMAIN k |-> q[i] * k[j] * Unit]]

\* what a finished call leaves for comparison with the next one
CallSummary ==
  [from_seq_length |-> from_seq_length,
   attention_mask |-> attention_mask,
   query_layer |-> query_layer,
   marg_dist |-> marg_dist]

\* the construction state machine is not running
ModelIdle ==
  /\ config = CHOOSE c \in SmallConfigs : TRUE
  /\ caller_config = config
  /\ is_training = FALSE
  /\ layer_def = [k \in 1..4 |-> FALSE]
  /\ input_shape = << 0, 0 >>
  /\ pc = "idle"
  /\ error = "none"
  /\ embedding_output = NoTensor
  /\ attention_head_size = 0
  /\ prev_output = NoTensor
  /\ all_layer_outputs = << >>
  /\ layer_idx = 0
  /\ all_encoder_layers = None
  /\ sequence_output = NoTensor
  /\ pooled_output = NoTensor
  /\ do_return_all_layers = FALSE
  /\ final_outputs = None
  /\ context_ids = ContextIds(7)
  /\ context_mask = None
  /\ kernel_size = << 3 >>
  /\ sub_attention_mask = None
  /\ self_attrs = {}
  /\ prev_model = NoModel

\* the arguments of a call: self-attention over a sequence of length n,
\* the mask built from a 2D input mask as BertModel builds it
CallArguments(n) ==
  /\ from_seq_length' = n
  /\ to_seq_length' = n
  /\ \E m \in Masks(1, n) :
       /\ input_mask' = m
       /\ attention_mask' = create_attention_mask_from_input_mask(<< 1, n >>, m)
  /\ size_per_head' \in HeadSizes
  /\ query_layer' \in [1..n -> QueryValues]
  /\ key_layer' \in [1..n -> KeyValues]

InitAttn ==
  /\ ModelIdle
  /\ UtilIdle
  /\ entry = "attention_layer"
  /\ att_pc = "scores"
  /\ from_seq_length \in 1..MaxAttnSeq
  /\ to_seq_length = from_seq_length
  /\ input_mask \in Masks(1, from_seq_length)
  /\ attention_mask =
       create_attention_mask_from_input_mask(<< 1, from_seq_length >>, input_mask)
  /\ size_per_head \in HeadSizes
  /\ query_layer \in [1..from_seq_length -> QueryValues]
  /\ key_layer \in [1..from_seq_length -> KeyValues]
  /\ attention_scores = << >>
  /\ margin = << >>
  /\ marg_dist = << >>
  /\ adder = << >>
  /\ attention_probs = << >>
  /\ prev_call = NoCall

\* the raw scores: query times key, transposed
AttnRawScores ==
  /\ att_pc = "scores"
  /\ attention_scores' = RawScores(query_layer, key_layer)
  /\ att_pc' = "distance"
  /\ UNCHANGED << from_seq_length, to_seq_length, size_per_head, query_layer,
                  key_layer, margin, marg_dist, adder, attention_probs,
                  prev_call >>
  /\ UNCHANGED << modelVars, utilVars >>

\* the distance bias, added to the raw scores, and the scaling
AttnDistanceBias ==
  /\ att_pc = "distance"
  /\ margin' = MargDist(from_seq_length)
  /\ marg_dist' = MaskedBias(attention_mask[1], MarginBias(margin'))
  /\ attention_scores' =
       BiasedAndScaled(attention_scores, marg_dist', size_per_head)
  /\ att_pc' = "mask"
  /\ UNCHANGED << from_seq_length, to_seq_length, size_per_head, query_layer,
                  key_layer, adder, attention_probs, prev_call >>
  /\ UNCHANGED << modelVars, utilVars >>

\* the mask penalty
AttnMaskPenalty ==
  /\ att_pc = "mask"
  /\ adder' = MaskAdder(attention_mask[1])
  /\ attention_scores' =
       [i \in DOMAIN attention_scores |->
         [j \in DOMAIN attention_scores[i] |->
            attention_scores[i][j] + adder'[i][j]]]
  /\ att_pc' = "softmax"
  /\ UNCHANGED << from_seq_length, to_seq_length, size_per_head, query_layer,
                  key_layer, margin, marg_dist, attention_probs, prev_call >>
  /\ UNCHANGED << modelVars, utilVars >>

\* the probabilities
AttnSoftmax ==
  /\ att_pc = "softmax"
  /\ attention_probs' = Softmax(attention_scores, ProbOne)
  /\ att_pc' = "returned"
  /\ UNCHANGED << from_seq_length, to_seq_length, size_per_head, query_layer,
                  key_layer, attention_scores, margin, marg_dist, adder,
                  prev_call >>
  /\ UNCHANGED << modelVars, utilVars >>

\* attention_layer is called again (another layer, head, batch element or
\* model), with arguments of its own
AttnCallAgain ==
  /\ att_pc = "returned"
  /\ prev_call = NoCall
  /\ prev_call' = CallSummary
  /\ \E n \in 1..MaxAttnSeq : CallArguments(n)
  /\ attention_scores' = << >>
  /\ margin' = << >>
  /\ marg_dist' = << >>
  /\ adder' = << >>
  /\ attention_probs' = << >>
  /\ att_pc' = "scores"
  /\ UNCHANGED << caller_config, is_training, config, layer_def, input_shape,
                  pc, error, embedding_output, attention_head_size,
                  prev_output, all_layer_outputs, layer_idx,
                  all_encoder_layers, sequence_output, pooled_output, entry,
                  do_return_all_layers, final_outputs >>
  /\ UNCHANGED << context_ids, context_mask, kernel_size, sub_attention_mask,
                  self_attrs, prev_model >>
  /\ UNCHANGED utilVars

NextAttn ==
  \/ AttnRawScores
  \/ AttnDistanceBias
  \/ AttnMaskPenalty
  \/ AttnSoftmax
  \/ AttnCallAgain

SpecAttn == InitAttn /\ [][NextAttn]_vars

(* ======================== utility functions ============================ *)
(* One call of one of the module's helper functions, its arguments drawn   *)
(* from small sets. A tensor of known elements is the record               *)
(* [op |-> "values", shape, at], at mapping each 0-based index tuple to    *)
(* the element; the elements of a reshaped tensor are read through the     *)
(* row-major order tf.reshape keeps.                                       *)

\* largest rank of the tensors drawn
MaxRank == 3
\* largest size of a dimension of the tensors drawn
MaxDim == 2

\* the static shapes drawn: every rank from 0 to MaxRank
UtilShapes ==
  UNION {[1..r -> 1..MaxDim] : r \in 0..MaxRank}

\* the 0-based index tuples of a tensor of the given shape
Indices(shape) ==
  LET RECURSIVE Largest(_)
      Largest(k) ==
        IF k = 0 THEN 1
        ELSE IF shape[k] > Largest(k - 1) THEN shape[k] ELSE Largest(k - 1)
  IN {idx \in [1..Len(shape) -> 0..(Largest(Len(shape)) - 1)] :
        \A k \in 1..Len(shape) : idx[k] < shape[k]}

\* the row-major offset of an index tuple
FlatIndex(idx, shape) ==
  LET RECURSIVE F(_)
      F(k) == IF k = 0 THEN 0 ELSE F(k - 1) * shape[k] + idx[k]
  IN F(Len(shape))

\* the index tuple at a row-major offset
Unflatten(offset, shape) ==
  CHOOSE idx \in Indices(shape) : FlatIndex(idx, shape) = offset

\* the element of a tensor at an index tuple: tf.reshape keeps the
\* row-major order of the elements
RECURSIVE ElementAt(_, _)
ElementAt(t, idx) ==
  IF t.op = "values"
    THEN t.at[idx]
    ELSE ElementAt(t.input, Unflatten(FlatIndex(idx, t.shape), t.input.shape))

\* the element of the tensor a chain of tf.reshape started from that stands
\* at an index tuple of the chain's result
RECURSIVE OriginOf(_, _)
OriginOf(t, idx) ==
  IF t.op = "reshape"
    THEN OriginOf(t.input, Unflatten(FlatIndex(idx, t.shape), t.input.shape))
    ELSE [tensor |-> t, at |-> idx]

\* tensors of known, pairwise distinct elements, two numberings per shape
ValueTensors ==
  {[op |-> "values", shape |-> sh,
    at |-> [idx \in Indices(sh) |->
              IF up THEN FlatIndex(idx, sh)
                    ELSE ProductOf(sh) - FlatIndex(idx, sh)]] :
     sh \in UtilShapes, up \in BOOLEAN}

\* largest batch size and sequence length of the id tensors drawn
MaxIdBatch == 2
MaxIdLen == 2

\* the vocabulary sizes and embedding widths drawn
VocabSizes == {3}
EmbeddingSizes == {2}

\* id tensors of shape [B, L] whose ids all lie in [0, depth)
IdTensors(depth) ==
  UNION {[1..b -> [1..l -> 0..(depth - 1)]] :
           b \in 1..MaxIdBatch, l \in 1..MaxIdLen}

\* id tensors of one sequence with an id outside [0, depth): one below or
\* above the range
StrayIdTensors(depth) ==
  UNION {[1..1 -> [1..l -> (0 - 1)..depth]] : l \in 1..MaxIdLen}
    \ IdTensors(depth)

\* every id of the tensor lies in [0, depth)
IdsInRange(ids, depth) ==
  \A b \in DOMAIN ids : \A l \in DOMAIN ids[b] :
    ids[b][l] >= 0 /\ ids[b][l] < depth

\* embedding tables of shape [depth, width], rows indexed from 0: one of
\* pairwise distinct entries, one with entries of both signs
EmbeddingTables(depth, width) ==
  {[v \in 0..(depth - 1) |-> [h \in 1..width |-> 10 * v + h]],
   [v \in 0..(depth - 1) |-> [h \in 1..width |-> (v - 1) * (h + 1)]]}

\* tf.reshape(input_ids, [-1]): the ids in row-major order
FlatIds(ids) ==
  LET l == Len(ids[1])
  IN [k \in 1..(Len(ids) * l) |-> ids[((k - 1) \div l) + 1][((k - 1) % l) + 1]]

\* mutant: the one-hot columns are numbered from 1
OneHot_FromOne(flat_input_ids, depth) ==
  [k \in DOMAIN flat_input_ids |->
     [v \in 0..(depth - 1) |-> IF flat_input_ids[k] = v + 1 THEN 1 ELSE 0]]

\* mutant: an id outside [0, depth) is clipped to the nearest valid id
OneHot_Clipped(flat_input_ids, depth) ==
  [k \in DOMAIN flat_input_ids |->
     [v \in 0..(depth - 1) |->
        IF v = (IF flat_input_ids[k] < 0 THEN 0
                ELSE IF flat_input_ids[k] >= depth THEN depth - 1
                ELSE flat_input_ids[k])
          THEN 1 ELSE 0]]

\* tf.one_hot(flat_input_ids, depth): the row of an id outside [0, depth)
\* is all zeros
OneHot(flat_input_ids, depth) ==
  [k \in DOMAIN flat_input_ids |->
     [v \in 0..(depth - 1) |-> IF flat_input_ids[k] = v THEN 1 ELSE 0]]

\* tf.matmul(one_hot_input_ids, embedding_table)
MatMul(one_hot, table, depth, width) ==
  LET RECURSIVE Dot(_, _, _)
      Dot(k, h, v) ==
        IF v < 0 THEN 0 ELSE one_hot[k][v] * table[v][h] + Dot(k, h, v - 1)
  IN [k \in DOMAIN one_hot |-> [h \in 1..width |-> Dot(k, h, depth - 1)]]

\* tf.nn.embedding_lookup(embedding_table, input_ids), input_ids expanded
\* to [B, L, 1]; for an id outside the table the GPU kernel yields zeros
\* (the CPU kernel fails, see GatherFails)
Gather(table, ids) ==
  [b \in DOMAIN ids |-> [l \in DOMAIN ids[b] |->
     << IF ids[b][l] \in DOMAIN table
          THEN table[ids[b][l]]
          ELSE [h \in DOMAIN table[0] |-> 0] >>]]

\* the gather of tf.nn.embedding_lookup meets an id outside the table: the
\* CPU kernel raises InvalidArgumentError when the lookup is run
GatherFails(ids, depth, use_one_hot_embeddings) ==
  ~use_one_hot_embeddings /\ ~IdsInRange(ids, depth)

\* the token type lookup of embedding_postprocessor: always one-hot
token_type_embeddings(token_type_ids, token_type_vocab_size, width, token_type_table) ==
  LET batch_size == Len(token_type_ids)
      seq_length == Len(token_type_ids[1])
      flat_token_type_ids == FlatIds(token_type_ids)
      one_hot_ids == OneHot(flat_token_type_ids, token_type_vocab_size)
      product == MatMul(one_hot_ids, token_type_table, token_type_vocab_size,
                        width)
  IN [op |-> "token_type_embeddings",
      shape |-> << batch_size, seq_length, width >>,
      output |->
        [b \in 1..batch_size |->
           [l \in 1..seq_length |-> product[(b - 1) * seq_length + l]]]]

\* embedding_lookup (and the lookup of cluster_embedding_lookup): the
\* output reshaped to [B, L, 1 * embedding_size]
embedding_lookup(input_ids, vocab_size, embedding_size, embedding_table, use_one_hot_embeddings) ==
  LET batch == Len(input_ids)
      len == Len(input_ids[1])
      flat_input_ids == FlatIds(input_ids)
      one_hot_input_ids == OneHot(flat_input_ids, vocab_size)
      product == MatMul(one_hot_input_ids, embedding_table, vocab_size,
                        embedding_size)
      gathered == Gather(embedding_table, input_ids)
  IN [op |-> "embedding_lookup",
      shape |-> << batch, len, embedding_size >>,
      output |->
        IF use_one_hot_embeddings
          THEN [b \in 1..batch |-> [l \in 1..len |-> product[(b - 1) * len + l]]]
          ELSE [b \in 1..batch |-> [l \in 1..len |-> gathered[b][l][1]]]]

\* largest number of lines of the embedding.tsv files drawn
MaxLines == 2

\* a field of text that float() rejects
BadToken == 0 - 999

\* the second field of a line, split at its commas: vectors of 2, 1 and 3
\* numbers, and one with an entry that is no number
Vectors == {<< 1, 2 >>, << 3, 4 >>, << 5 >>, << 1, 2, 3 >>, << BadToken, 2 >>}

\* the id written in the first field of a line
LineIds == {0, 1}

\* a line of embedding.tsv as csv.reader yields it: its first field, the
\* number of its tab-separated fields, and its second field split at commas
\* (a line without a tab has one field and no second field)
FileLines ==
  [id : LineIds, nfields : {1}, vec : {<< >>}]
    \cup [id : LineIds, nfields : {2}, vec : Vectors]
    \cup [id : LineIds, nfields : {3}, vec : {<< 1, 2 >>}]

\* embedding.tsv: its lines in order
Files == UNION {[1..n -> FileLines] : n \in 0..MaxLines}

\* the cluster table sizes drawn
TableSizes == {1, 2, 3}

\* mutant: the row written is the one named by the line's first field
RowIndex_ById(index, line) == line.id

\* the row a line is written to: the running index, one per line
RowIndex(index, line) == index

\* mutant: a row index past the end of the table is accepted and the line
\* dropped
RowInRange_Unchecked(row, cluster_size) == TRUE

\* static_embed[index] exists: numpy raises IndexError otherwise
RowInRange(row, cluster_size) == row < cluster_size

\* static_initializer: the zero matrix, then one row per line, in line
\* order; numpy broadcasts a vector of one entry over the row
static_initializer(lines, cluster_size, embedding_size) ==
  LET RECURSIVE Fill(_, _)
      Fill(static_embed, index) ==
        IF index = Len(lines)
          THEN [op |-> "static_embed",
                shape |-> << cluster_size, embedding_size >>,
                rows |-> static_embed]
          ELSE LET line == lines[index + 1]
                   decoyArray == line.vec
                   row == RowIndex(index, line)
               IN IF line.nfields < 2
                    THEN Raised({"IndexError"})
                  ELSE IF \E k \in DOMAIN decoyArray : decoyArray[k] = BadToken
                    THEN Raised({"ValueError"})
                  ELSE IF ~RowInRange(row, cluster_size)
                    THEN Raised({"IndexError"})
                  ELSE IF Len(decoyArray) = embedding_size
                    THEN Fill([static_embed EXCEPT ![row] = decoyArray],
                              index + 1)
                  ELSE IF Len(decoyArray) = 1
                    THEN Fill([static_embed EXCEPT
                                 ![row] = [h \in 1..embedding_size |->
                                             decoyArray[1]]],
                              index + 1)
                  ELSE Raised({"ValueError"})
  IN Fill([k \in 0..(cluster_size - 1) |-> [h \in 1..embedding_size |-> 0]], 0)

\* the tables cluster_embedding_lookup gets from files of cluster_size
\* lines, each a vector of embedding_size numbers
ClusterTables(cluster_size, embedding_size) ==
  {static_initializer(f, cluster_size, embedding_size).rows :
     f \in {g \in [1..cluster_size -> FileLines] :
              \A k \in 1..cluster_size :
                /\ g[k].nfields = 2
                /\ Len(g[k].vec) = embedding_size
                /\ \A h \in 1..embedding_size : g[k].vec[h] # BadToken}}

\* a variable name without a ':<n>' at its end
NoSuffix == 0 - 1

\* the name of a live variable: its op name and ':0'
VarName(base) == [base |-> base, suffix |-> 0]

\* the op names of the live variables drawn
LiveBases ==
  {"output_weights", "output_bias", "bert/embeddings/word_embeddings",
   "bert/pooler/dense/kernel"}

\* the names a checkpoint may store
CheckpointNames == LiveBases \cup {"global_step"}

\* re.match("^(.*):\\d+$", name): the name without its ':<n>'
StripSuffix(name) == name.base

\* mutant: no variable is skipped
IsOutputHead_Never(name) == FALSE

\* name == 'output_weights:0' or name == 'output_bias:0'
IsOutputHead(name) ==
  /\ name.base \in {"output_weights", "output_bias"}
  /\ name.suffix = 0

\* get_assignment_map_from_checkpoint: tvars the live variables (each
\* known by its name), init_vars the names tf.train.list_variables returns
get_assignment_map_from_checkpoint(tvars, init_vars) ==
  LET kept == {var \in tvars : ~IsOutputHead(var)}
      name_to_variable ==
        [name \in {StripSuffix(var) : var \in kept} |->
           CHOOSE var \in kept : StripSuffix(var) = name]
      mapped == {name \in init_vars : name \in DOMAIN name_to_variable}
  IN [assignment_map |-> [name \in mapped |-> name_to_variable[name]],
      initialized_variable_names |->
        UNION {{[base |-> name, suffix |-> NoSuffix],
                [base |-> name, suffix |-> 0]} : name \in mapped}]

\* the id of the terminator token the pooler looks for
TerminatorId == 1475

\* the hidden vectors drawn
HiddenVectors == {<< 0, 1 >>, << 1, 0 >>}

\* an input of the pooler: one sequence of length l, its ids and its final
\* hidden states
PoolerInputs ==
  UNION {[input_ids : [1..1 -> [1..l -> {7, TerminatorId}]],
          sequence_output : [1..1 -> [1..l -> HiddenVectors]]] :
           l \in 1..MaxIdLen}

\* tf.squeeze(sequence_output[:, 0:1, :], axis=1), final_hidden being
\* self.sequence_output
first_token_tensor(final_hidden) ==
  [b \in DOMAIN final_hidden |-> final_hidden[b][1]]

\* mutant: the terminator's positions are taken column by column
second_token_tensor_ColumnMajor(final_hidden, input_ids) ==
  LET len == Len(input_ids[1])
      batch == Len(input_ids)
      At(k) == << ((k - 1) % batch) + 1, ((k - 1) \div batch) + 1 >>
      IsTerminator(k) == input_ids[At(k)[1]][At(k)[2]] = TerminatorId
      index == SelectSeq([k \in 1..(batch * len) |-> k], IsTerminator)
  IN [n \in DOMAIN index |-> final_hidden[At(index[n])[1]][At(index[n])[2]]]

\* tf.gather_nd(sequence_output, tf.where(tf.equal(input_ids, 1475))): the
\* hidden states at the terminator's positions, in row-major order
second_token_tensor(final_hidden, input_ids) ==
  LET len == Len(input_ids[1])
      flat == FlatIds(input_ids)
      IsTerminator(k) == flat[k] = TerminatorId
      index == SelectSeq([k \in DOMAIN flat |-> k], IsTerminator)
  IN [n \in DOMAIN index |->
        final_hidden[((index[n] - 1) \div len) + 1][((index[n] - 1) % len) + 1]]

\* the terminator lookup of the pooler with its reshape to
\* [batch_size, hidden_size], as it comes out when the tensor is evaluated:
\* tf.reshape fails unless the gathered vectors number batch_size
terminator_lookup(final_hidden, input_ids) ==
  \* hidden_shape is the code's input_shape
  LET gathered == second_token_tensor(final_hidden, input_ids)
      hidden_shape == << Len(final_hidden), Len(final_hidden[1]),
                        Len(final_hidden[1][1]) >>
  IN IF Len(gathered) * hidden_shape[3] # hidden_shape[1] * hidden_shape[3]
       THEN Raised({"InvalidArgumentError"})
       ELSE [op |-> "second_token_tensor",
             shape |-> << hidden_shape[1], hidden_shape[3] >>,
             rows |-> gathered]

\* the hidden state drawn for position l of sequence b: each position has
\* a vector of its own
HiddenAt(b, l) == << b, l >>

\* the inputs of the terminator lookup: batches of ids with the terminator
\* at any set of positions
TerminatorInputs ==
  UNION {[input_ids : [1..B -> [1..L -> {7, TerminatorId}]],
          sequence_output : {[b \in 1..B |-> [l \in 1..L |-> HiddenAt(b, l)]]}] :
           B \in 1..MaxIdBatch, L \in 1..MaxIdLen}

\* tf.layers.dense(..., activation=tf.tanh) with the pooler's weights
Dense(x) == [op |-> "dense_tanh", input |-> x]

\* mutant: the terminator's hidden state is folded into the pooled output
PoolerOutput_Concat(final_hidden, input_ids) ==
  Dense(<< first_token_tensor(final_hidden),
           second_token_tensor(final_hidden, input_ids) >>)

\* the pooler: both token tensors are built, the dense layer is applied to
\* the first
PoolerOutput(final_hidden, input_ids) ==
  LET first == first_token_tensor(final_hidden)
      second == second_token_tensor(final_hidden, input_ids)
  IN Dense(first)

\* largest from_seq_length and to_seq_length of the attention_layer calls
\* whose shapes are followed
MaxFromTo == 3

\* batch_size, from_seq_length or to_seq_length is None
NoSize == 0 - 1

\* whether two static shapes broadcast, aligned at their last axes
Broadcastable(s, t) ==
  \A k \in 1..(IF Len(s) < Len(t) THEN Len(s) ELSE Len(t)) :
    LET a == s[Len(s) + 1 - k]
        b == t[Len(t) + 1 - k]
    IN a = b \/ a = 1 \/ b = 1

\* the shape two broadcastable shapes broadcast to
BroadcastShape(s, t) ==
  LET n == IF Len(s) < Len(t) THEN Len(t) ELSE Len(s)
      Dim(x, k) == IF k + Len(x) - n >= 1 THEN x[k + Len(x) - n] ELSE 1
  IN [k \in 1..n |-> IF Dim(s, k) = 1 THEN Dim(t, k) ELSE Dim(s, k)]

\* tf.expand_dims(x, axis=[1]) of a static shape
ExpandDims(shape) ==
  << shape[1], 1 >> \o SubSeq(shape, 2, Len(shape))

\* attention_layer on static shapes: every reshape, broadcast and matmul of
\* its body, in the order of the code; mask is the attention_mask argument
\* (NoTensor for None), width_per_head is size_per_head, from_length and
\* to_length are from_seq_length and to_seq_length.
\* The result names the shape of the scores the softmax is taken of.
attention_layer(from_tensor, to_tensor, mask, num_attention_heads, width_per_head, do_return_2d_tensor, batch_size, from_length, to_length) ==
  LET from_shape == from_tensor.shape
      to_shape == to_tensor.shape
      rank3 == Len(from_shape) = 3
      B == IF rank3 THEN from_shape[1] ELSE batch_size
      F == IF rank3 THEN from_shape[2] ELSE from_length
      T == IF rank3 THEN to_shape[2] ELSE to_length
      N == num_attention_heads
      H == width_per_head
      from_tensor_2d == reshape_to_matrix(from_tensor)
      to_tensor_2d == reshape_to_matrix(to_tensor)
      raw_scores == << B, N, F, T >>
      margin_shape == << F, F >>
      bias_shape ==
        ExpandDims(BroadcastShape(mask.shape, margin_shape))
      biased == BroadcastShape(raw_scores, bias_shape)
      adder_shape == ExpandDims(mask.shape)
      masked == BroadcastShape(biased, adder_shape)
      context_layer == << masked[1], masked[3], masked[2], H >>
  IN IF get_shape_list(from_tensor, ListRank(<< 2, 3 >>)).op = "raise"
          \/ get_shape_list(to_tensor, ListRank(<< 2, 3 >>)).op = "raise"
       THEN Raised({"ValueError"})
     ELSE IF Len(from_shape) # Len(to_shape)
       THEN Raised({"ValueError"})
     ELSE IF ~rank3 /\ NoSize \in {batch_size, from_length, to_length}
       THEN Raised({"ValueError"})
     \* transpose_for_scores: [B*F, N*H] to [B, F, N, H], [B*T, N*H] to
     \* [B, T, N, H]
     ELSE IF from_tensor_2d.shape[1] # B * F \/ to_tensor_2d.shape[1] # B * T
       THEN Raised({"ValueError"})
     \* tf.cast(attention_mask, tf.float32) of None
     ELSE IF mask = NoTensor
       THEN Raised({"ValueError"})
     \* tf.multiply(mask, marg_dist), marg_dist of shape [F, F]
     ELSE IF ~Broadcastable(mask.shape, margin_shape)
       THEN Raised({"ValueError"})
     \* attention_scores + marg_dist, attention_scores += adder
     ELSE IF ~Broadcastable(raw_scores, bias_shape)
       THEN Raised({"ValueError"})
     ELSE IF ~Broadcastable(biased, adder_shape)
       THEN Raised({"ValueError"})
     \* tf.matmul(attention_probs, value_layer), value_layer [B, N, T, H]
     ELSE IF << masked[1], masked[2] >> # << B, N >> \/ masked[4] # T
       THEN Raised({"ValueError"})
     \* the reshape of context_layer
     ELSE IF ProductOf(context_layer) # B * F * N * H
       THEN Raised({"ValueError"})
     ELSE [op |-> "attention_layer",
           attention_scores |-> masked,
           adder |-> adder_shape,
           shape |-> IF do_return_2d_tensor
                       THEN << B * F, N * H >>
                       ELSE << B, F, N * H >>]

\* largest from_seq_length of the distance-bias computations followed at
\* the resolution of float32
MaxMarginLen == 20

\* marg_dist is cast to tf.float32 before the softmax (line 1081), so
\* 0.5 - softmax(marg_dist) is a float32 difference: just below 0.5 the
\* float32 numbers lie 2^-25 apart, and the difference is rounded to the
\* nearest of them. Exponentials are held in units of 2^-28, the bias in
\* units of 2^-25.
Exp32One == 2^28
HalfUlps == 2^24

\* exp(-g) for whole g >= 0, in Exp32One
Exp32(g) ==
  IF g >= 21 THEN 0
  ELSE << 268435456, 98751886, 36328788, 13364614, 4916567, 1808704,
          665385, 244781, 90050, 33128, 12187, 4483, 1649, 607, 223, 82,
          30, 11, 4, 2, 1 >>[g + 1]

\* floor(e * 2^bits / total), by long division (every intermediate value
\* stays below 2^31)
ScaledQuotient(e, total, bits) ==
  LET RECURSIVE LD(_, _, _)
      LD(q, r, k) ==
        IF k = 0 THEN q
        ELSE LD(2 * q + ((2 * r) \div total), (2 * r) % total, k - 1)
  IN LD(e \div total, e % total, bits)

\* mutant: softmax - 0.5
Bias32Row_Flipped(row) ==
  LET m == RowMax(row)
      e == [j \in DOMAIN row |-> Exp32(m - row[j])]
      total == RowSum(e)
  IN [j \in DOMAIN row |->
        ((ScaledQuotient(e[j], total, 26) + 1) \div 2) - HalfUlps]

\* 0.5 - tf.nn.softmax(row) for a row of whole numbers, in float32: the
\* softmax (exponentials of the differences to the row's maximum, divided
\* by their sum) rounded to the nearest multiple of 2^-25
Bias32Row(row) ==
  LET m == RowMax(row)
      e == [j \in DOMAIN row |-> Exp32(m - row[j])]
      total == RowSum(e)
  IN [j \in DOMAIN row |->
        HalfUlps - ((ScaledQuotient(e[j], total, 26) + 1) \div 2)]

\* marg_dist = (0.5 - tf.nn.softmax(marg_dist)) in float32
MarginBias32(marg) ==
  [i \in DOMAIN marg |-> Bias32Row(marg[i])]

\* tensors of which only the shape matters
ShapeTensors == {[op |-> "input", shape |-> sh] : sh \in UtilShapes}

\* the dropout probabilities drawn: None, 0.0, 0.1, 0.5, 1.0
DropoutProbs == {NoProb, 0, DefaultDropoutProb, 50, 100}

\* the expected_rank arguments drawn
ExpectedRanks ==
  {IntRank(r) : r \in 0..MaxRank}
    \cup {ListRank(<< 2, 3 >>), ListRank(<< 1 >>), ListRank(<< >>)}

\* the arguments of dropout(input_tensor, dropout_prob)
DropoutArguments ==
  /\ util_fn = "dropout"
  /\ util_args \in [input_tensor : ShapeTensors, dropout_prob : DropoutProbs]

\* the arguments of assert_rank(tensor, expected_rank)
AssertRankArguments ==
  /\ util_fn = "assert_rank"
  /\ util_args \in [tensor : ShapeTensors, expected_rank : ExpectedRanks]

\* the arguments of get_shape_list(tensor, expected_rank=None)
GetShapeListArguments ==
  /\ util_fn = "get_shape_list"
  /\ util_args \in [tensor : ShapeTensors,
                    expected_rank : ExpectedRanks \cup {NoRank}]

\* the argument of reshape_to_matrix(input_tensor)
ReshapeArguments ==
  /\ util_fn = "reshape_to_matrix"
  /\ util_args \in [input_tensor : ValueTensors]

\* the arguments of embedding_postprocessor: the input tensor is named as
\* the only channel of a sum; token_type_ids and entity_type_ids are given
\* (TRUE) or None (FALSE)
PostprocessorArguments ==
  /\ util_fn = "embedding_postprocessor"
  /\ util_args \in
       [input_tensor : {ChannelSum({"input_tensor"}, sh) :
                          sh \in {x \in UtilShapes : Len(x) >= 2}},
        use_token_type : BOOLEAN,
        token_type_ids : BOOLEAN,
        use_position_embeddings : BOOLEAN,
        max_position_embeddings : {1, 512},
        use_entity_embedding : BOOLEAN,
        entity_type_ids : BOOLEAN,
        dropout_prob : {0, DefaultDropoutProb}]

\* the arguments of embedding_lookup, the table being the variable it gets
EmbeddingLookupArguments ==
  /\ util_fn = "embedding_lookup"
  /\ \E vocab_size \in VocabSizes, embedding_size \in EmbeddingSizes :
       util_args \in
         [input_ids : IdTensors(vocab_size) \cup StrayIdTensors(vocab_size),
          vocab_size : {vocab_size},
          embedding_size : {embedding_size},
          embedding_table : EmbeddingTables(vocab_size, embedding_size),
          use_one_hot_embeddings : BOOLEAN]

\* the arguments of static_initializer, feature_locale being the
\* directory of the file
StaticInitializerArguments ==
  /\ util_fn = "static_initializer"
  /\ util_args \in
       [feature_locale : Files, cluster_size : TableSizes,
        embedding_size : EmbeddingSizes]

\* the arguments of cluster_embedding_lookup, the table being the variable
\* static_initializer filled
ClusterLookupArguments ==
  /\ util_fn = "cluster_embedding_lookup"
  /\ \E embedding_size \in EmbeddingSizes :
       util_args \in
         [cluster_ids : IdTensors(MaxLines) \cup StrayIdTensors(MaxLines),
          cluster_size : {MaxLines},
          embedding_size : {embedding_size},
          cluster_embedding_table : ClusterTables(MaxLines, embedding_size),
          use_one_hot_embeddings : BOOLEAN]

\* the arguments of the token type lookup inside embedding_postprocessor
TokenTypeArguments ==
  /\ util_fn = "token_type_embeddings"
  /\ \E vocab_size \in VocabSizes, embedding_size \in EmbeddingSizes :
       util_args \in
         [token_type_ids : IdTensors(vocab_size)
                             \cup StrayIdTensors(vocab_size),
          token_type_vocab_size : {vocab_size},
          embedding_size : {embedding_size},
          token_type_table : EmbeddingTables(vocab_size, embedding_size)]

\* the keyword arguments of a BertConfig(...) call
BertConfigArguments ==
  /\ util_fn = "BertConfig"
  /\ util_args \in [kwargs : KeywordSets]

\* the dictionary handed to BertConfig.from_dict
FromDictArguments ==
  /\ util_fn = "from_dict"
  /\ util_args \in [json_object : KeywordSets]

\* the arguments of get_assignment_map_from_checkpoint
AssignmentMapArguments ==
  /\ util_fn = "get_assignment_map_from_checkpoint"
  /\ util_args \in
       [tvars : SUBSET {VarName(base) : base \in LiveBases},
        init_vars : SUBSET CheckpointNames]

\* two models whose poolers are compared
PoolerArguments ==
  /\ util_fn = "pooler"
  /\ util_args \in [a : PoolerInputs, b : PoolerInputs]

\* the arguments of the terminator lookup
TerminatorLookupArguments ==
  /\ util_fn = "terminator_lookup"
  /\ util_args \in TerminatorInputs

\* the arguments of attention_layer: from_tensor [B, F, W] and to_tensor
\* [B, T, W], or their 2D forms with batch_size, from_seq_length and
\* to_seq_length given (as transformer_model calls it) or left out; the
\* mask None or of the documented shape [B, F, T]
AttentionLayerArguments ==
  /\ util_fn = "attention_layer"
  /\ \E B \in 1..2, F \in 1..MaxFromTo, T \in 1..MaxFromTo, given \in BOOLEAN :
       util_args \in
         [from_tensor : {[op |-> "input", shape |-> << B, F, 4 >>],
                         [op |-> "input", shape |-> << B * F, 4 >>]},
          to_tensor : {[op |-> "input", shape |-> << B, T, 4 >>],
                       [op |-> "input", shape |-> << B * T, 4 >>]},
          attention_mask : {NoTensor,
                            [op |-> "input", shape |-> << B, F, T >>]},
          num_attention_heads : {1, 2},
          size_per_head : {2},
          do_return_2d_tensor : BOOLEAN,
          batch_size : {IF given THEN B ELSE NoSize},
          from_seq_length : {IF given THEN F ELSE NoSize},
          to_seq_length : {IF given THEN T ELSE NoSize}]

\* the distance bias of attention_layer for a from_seq_length
DistanceBiasArguments ==
  /\ util_fn = "marg_dist"
  /\ util_args \in [from_seq_length : 1..MaxMarginLen]

InitUtil ==
  /\ ModelIdle
  /\ AttnIdle
  /\ entry = "utility"
  /\ input_mask = None
  /\ attention_mask = None
  /\ util_pc = "call"
  /\ util_result = NoTensor
  /\ \/ DropoutArguments
     \/ AssertRankArguments
     \/ GetShapeListArguments
     \/ ReshapeArguments
     \/ PostprocessorArguments
     \/ EmbeddingLookupArguments
     \/ StaticInitializerArguments
     \/ ClusterLookupArguments
     \/ BertConfigArguments
     \/ FromDictArguments
     \/ TerminatorLookupArguments
     \/ TokenTypeArguments
     \/ AssignmentMapArguments
     \/ PoolerArguments
     \/ AttentionLayerArguments
     \/ DistanceBiasArguments

\* the call returns or raises
Return(result) ==
  /\ util_result' = result
  /\ util_pc' = "returned"
  /\ UNCHANGED << util_fn, util_args >>
  /\ UNCHANGED << modelVars, attnVars >>

Dropout ==
  /\ util_pc = "call"
  /\ util_fn = "dropout"
  /\ Return(dropout(util_args.input_tensor, util_args.dropout_prob))

AssertRank ==
  /\ util_pc = "call"
  /\ util_fn = "assert_rank"
  /\ Return(assert_rank(util_args.tensor, util_args.expected_rank))

GetShapeList ==
  /\ util_pc = "call"
  /\ util_fn = "get_shape_list"
  /\ Return(get_shape_list(util_args.tensor, util_args.expected_rank))

ReshapeToMatrix ==
  /\ util_pc = "call"
  /\ util_fn = "reshape_to_matrix"
  /\ Return(reshape_to_matrix(util_args.input_tensor))

\* the flattened tensor is restored to the shape of the original
ReshapeFromMatrix ==
  /\ util_pc = "returned"
  /\ util_fn = "reshape_to_matrix"
  /\ util_result.op # "raise"
  /\ util_result' =
       reshape_from_matrix(util_result, util_args.input_tensor.shape)
  /\ util_pc' = "restored"
  /\ UNCHANGED << util_fn, util_args >>
  /\ UNCHANGED << modelVars, attnVars >>

EmbeddingPostprocessorCall ==
  /\ util_pc = "call"
  /\ util_fn = "embedding_postprocessor"
  /\ \E output \in
         {embedding_postprocessor(
            util_args.input_tensor, util_args.use_token_type,
            util_args.token_type_ids, util_args.use_position_embeddings,
            util_args.max_position_embeddings, util_args.use_entity_embedding,
            util_args.entity_type_ids, util_args.dropout_prob)} :
       IF output.op = "raise"
         THEN \E exc \in output.excs : Return(Raised({exc}))
         ELSE Return(output)

EmbeddingLookup ==
  /\ util_pc = "call"
  /\ util_fn = "embedding_lookup"
  /\ \/ Return(embedding_lookup(util_args.input_ids, util_args.vocab_size,
                                util_args.embedding_size,
                                util_args.embedding_table,
                                util_args.use_one_hot_embeddings))
     \/ /\ GatherFails(util_args.input_ids, util_args.vocab_size,
                        util_args.use_one_hot_embeddings)
        /\ Return(Raised({"InvalidArgumentError"}))

StaticInitializer ==
  /\ util_pc = "call"
  /\ util_fn = "static_initializer"
  /\ Return(static_initializer(util_args.feature_locale,
                               util_args.cluster_size,
                               util_args.embedding_size))

ClusterEmbeddingLookup ==
  /\ util_pc = "call"
  /\ util_fn = "cluster_embedding_lookup"
  /\ \/ Return(embedding_lookup(util_args.cluster_ids,
                                util_args.cluster_size,
                                util_args.embedding_size,
                                util_args.cluster_embedding_table,
                                util_args.use_one_hot_embeddings))
     \/ /\ GatherFails(util_args.cluster_ids, util_args.cluster_size,
                        util_args.use_one_hot_embeddings)
        /\ Return(Raised({"InvalidArgumentError"}))

TokenTypeEmbeddings ==
  /\ util_pc = "call"
  /\ util_fn = "token_type_embeddings"
  /\ Return(token_type_embeddings(util_args.token_type_ids,
                                  util_args.token_type_vocab_size,
                                  util_args.embedding_size,
                                  util_args.token_type_table))

GetAssignmentMap ==
  /\ util_pc = "call"
  /\ util_fn = "get_assignment_map_from_checkpoint"
  /\ Return(Returned(get_assignment_map_from_checkpoint(util_args.tvars,
                                                        util_args.init_vars)))

\* get_pooled_output of the two models
PoolerCall ==
  /\ util_pc = "call"
  /\ util_fn = "pooler"
  /\ Return([op |-> "pooled_output",
             a |-> PoolerOutput(util_args.a.sequence_output,
                                util_args.a.input_ids),
             b |-> PoolerOutput(util_args.b.sequence_output,
                                util_args.b.input_ids)])

BertConfigInit ==
  /\ util_pc = "call"
  /\ util_fn = "BertConfig"
  /\ Return(BertConfig(util_args.kwargs))

FromDict ==
  /\ util_pc = "call"
  /\ util_fn = "from_dict"
  /\ Return(from_dict(util_args.json_object))

TerminatorLookup ==
  /\ util_pc = "call"
  /\ util_fn = "terminator_lookup"
  /\ Return(terminator_lookup(util_args.sequence_output, util_args.input_ids))

AttentionLayer ==
  /\ util_pc = "call"
  /\ util_fn = "attention_layer"
  /\ Return(attention_layer(util_args.from_tensor, util_args.to_tensor,
                            util_args.attention_mask,
                            util_args.num_attention_heads,
                            util_args.size_per_head,
                            util_args.do_return_2d_tensor,
                            util_args.batch_size, util_args.from_seq_length,
                            util_args.to_seq_length))

\* lines 1076 to 1082 of attention_layer: the margin matrix and the bias
\* before the mask is applied
DistanceBias ==
  /\ util_pc = "call"
  /\ util_fn = "marg_dist"
  /\ Return([op |-> "marg_dist",
             margin |-> MargDist(util_args.from_seq_length),
             bias |-> MarginBias32(MargDist(util_args.from_seq_length))])

NextUtil ==
  \/ Dropout
  \/ AssertRank
  \/ GetShapeList
  \/ ReshapeToMatrix
  \/ ReshapeFromMatrix
  \/ EmbeddingPostprocessorCall
  \/ EmbeddingLookup
  \/ StaticInitializer
  \/ ClusterEmbeddingLookup
  \/ BertConfigInit
  \/ FromDict
  \/ TerminatorLookup
  \/ TokenTypeEmbeddings
  \/ GetAssignmentMap
  \/ PoolerCall
  \/ AttentionLayer
  \/ DistanceBias

SpecUtil == InitUtil /\ [][NextUtil]_vars

\* the constructions and the utility calls together
InitAll == Init \/ InitUtil

NextAll == Next \/ NextUtil

SpecAll == InitAll /\ [][NextAll]_vars

(* ======================== claims: BertModel construction =============== *)
\* stages of BertModel.__init__ that follow embedding_postprocessor
AfterPostprocess ==
  {"encoder", "transformer_model", "layers", "sequence_output", "pooler", "done"}

\* transformer_model has returned to its caller
TransformerReturned ==
  \/ pc \in {"sequence_output", "pooler"}
  \/ pc = "done" /\ (entry = "transformer_model" \/ LayerDef(0))
  \/ pc = "error" /\ error = "IndexError"

\* C1 (as claimed): the docstring example (hidden_size 512, 6 heads, 8
\* layers, batch of 2 sequences of length 3 with mask [[1,1,1],[1,1,0]]),
\* built with every stage enabled and a configuration that carries
\* cluster_size, never ends in an error and, once complete, has a pooled
\* output of shape [2, 512].
C1_DocExampleCompletes ==
  ( /\ entry = "BertModel"
    /\ config \in DocConfigs
    /\ config.cluster_size # NoAttr
    /\ \A k \in {0, 2, 3} : LayerDef(k)
    /\ input_shape = << 2, 3 >>
    /\ input_mask = << << 1, 1, 1 >>, << 1, 1, 0 >> >> )
  => /\ pc # "error"
     /\ pc = "done" => pooled_output.shape = << 2, 512 >>

\* C2: whenever transformer_model is entered with a hidden size that is not
\* a multiple of the head count it raises ValueError; in that case no layer
\* output, return value or sequence output ever exists; and every layer that
\* is built uses a head width with num_attention_heads * width = hidden_size.
C2_HeadWidthExact ==
  /\ [][ ( /\ pc = "transformer_model"
           /\ config.hidden_size % config.num_attention_heads # 0 )
         => (pc' = "error" /\ error' = "ValueError") ]_vars
  /\ [] ( config.hidden_size % config.num_attention_heads # 0
          => /\ all_layer_outputs = << >>
             /\ final_outputs = None
             /\ sequence_output = NoTensor
             /\ pc \notin {"layers", "sequence_output", "pooler"} )
  /\ [] ( /\ pc \in {"layers", "sequence_output", "pooler"}
             => config.num_attention_heads * attention_head_size
                  = config.hidden_size
          /\ \A k \in 1..Len(all_layer_outputs) :
               all_layer_outputs[k].num_attention_heads
                 * all_layer_outputs[k].size_per_head = config.hidden_size )

\* C2 witness: transformer_model has raised ValueError on a non-divisible pair
C2_Witness ==
  /\ pc = "error"
  /\ error = "ValueError"
  /\ config.hidden_size % config.num_attention_heads # 0
  /\ attention_mask # None

\* C3 (as claimed): in the mask BertModel hands to the encoder, entry
\* (b, i, j) is 1 exactly when input_mask[b][j] is 1, whatever i is.
C3_RowsAreCopies ==
  (entry = "BertModel" /\ pc \in (AfterPostprocess \ {"encoder"})
     /\ attention_mask # None)
  => \A b \in 1..input_shape[1] :
       \A i, j \in 1..input_shape[2] :
         attention_mask[b][i][j] = input_mask[b][j]

\* C9: the retained outputs form a chain: output k is layer k-1 applied to
\* output k-1 (the first to the flattened input); when transformer_model
\* returns there are exactly num_hidden_layers of them, the return value is
\* all of them reshaped (do_return_all_layers) or the last one reshaped, and
\* BertModel's sequence output is the last element of the returned list.
C9_LinearChain ==
  /\ Len(all_layer_outputs) = layer_idx
  /\ layer_idx <= config.num_hidden_layers
  /\ \A k \in 1..Len(all_layer_outputs) :
       /\ all_layer_outputs[k].layer = k - 1
       /\ all_layer_outputs[k].layer_input =
            IF k = 1 THEN reshape_to_matrix(embedding_output)
                     ELSE all_layer_outputs[k - 1]
  /\ TransformerReturned =>
       /\ Len(all_layer_outputs) = config.num_hidden_layers
       /\ IF do_return_all_layers
            THEN /\ Len(final_outputs) = config.num_hidden_layers
                 /\ \A k \in 1..config.num_hidden_layers :
                      final_outputs[k] =
                        reshape_from_matrix(all_layer_outputs[k],
                                            embedding_output.shape)
            ELSE config.num_hidden_layers > 0 =>
                   final_outputs =
                     reshape_from_matrix(
                       all_layer_outputs[config.num_hidden_layers],
                       embedding_output.shape)
  /\ (entry = "BertModel" /\ LayerDef(0) /\ pc \in {"pooler", "done"}) =>
       /\ all_encoder_layers = final_outputs
       /\ sequence_output = final_outputs[config.num_hidden_layers]

\* C9 witness: a BertModel with two layers is complete
C9_Witness ==
  /\ entry = "BertModel"
  /\ pc = "done"
  /\ Len(all_layer_outputs) = 2
  /\ sequence_output = final_outputs[2]

BiasAdded == att_pc \in {"mask", "softmax", "returned"}

\* a call came before the one being followed
HasPrevCall == prev_call.from_seq_length > 0

\* the small probability below which a masked position counts as removed
Epsilon == ProbOne \div 10^4

\* C4 (as claimed): margin entries (i, j) and (j, i), i # j, have opposite
\* signs, and the diagonal is zero.
C4_OppositeSigns ==
  BiasAdded =>
    \A i, j \in 1..from_seq_length :
      IF i = j THEN margin[i][j] = 0
               ELSE margin[i][j] * margin[j][i] < 0

\* C4 (amended): margin entries (i, j) and (j, i), i # j, are equal and
\* positive (the lower triangle of j - i is negated into the sign of the
\* upper one), and the diagonal is zero.
C4_SameSign ==
  BiasAdded =>
    \A i, j \in 1..from_seq_length :
      IF i = j THEN margin[i][j] = 0
               ELSE margin[i][j] = margin[j][i] /\ margin[i][j] > 0

\* C4 witness: the margin of a sequence of length 2 has been computed
C4_Witness ==
  /\ BiasAdded
  /\ from_seq_length = 2
  /\ margin[2][1] = 1

\* C5 (as claimed): for length 1 and mask 1 the bias added to the single
\* score is zero.
C5_ZeroBias ==
  (BiasAdded /\ from_seq_length = 1 /\ attention_mask[1][1][1] = 1)
  => marg_dist[1][1] = 0

\* C5 (amended): for length 1 and mask 1 the margin is zero and the bias
\* added to the single score is 0.5 - softmax([0]) = -0.5.
C5_MinusHalfBias ==
  (BiasAdded /\ from_seq_length = 1 /\ attention_mask[1][1][1] = 1)
  => /\ margin[1][1] = 0
     /\ marg_dist[1][1] = 0 - Half

\* C5 witness: a call on one attendable position has returned
C5_Witness ==
  /\ att_pc = "returned"
  /\ from_seq_length = 1
  /\ attention_mask[1][1][1] = 1
  /\ attention_probs[1][1] = ProbOne

\* C6 (as claimed): two calls with the same from_seq_length add the same
\* bias, whatever their masks and contents.
C6_LengthOnly ==
  (BiasAdded /\ HasPrevCall
     /\ prev_call.from_seq_length = from_seq_length)
  => prev_call.marg_dist = marg_dist

\* C6 (amended): two calls with the same from_seq_length and the same
\* attention mask add the same bias, whatever their contents.
C6_LengthAndMaskOnly ==
  (BiasAdded /\ HasPrevCall
     /\ prev_call.from_seq_length = from_seq_length
     /\ prev_call.attention_mask = attention_mask)
  => prev_call.marg_dist = marg_dist

\* C6 witness: two calls of the same length and mask, with different
\* contents and a bias that is not zero, have both added their bias
C6_Witness ==
  /\ att_pc = "returned"
  /\ HasPrevCall
  /\ prev_call.from_seq_length = from_seq_length
  /\ prev_call.attention_mask = attention_mask
  /\ prev_call.query_layer # query_layer
  /\ from_seq_length = 2
  /\ marg_dist[1][1] # 0

\* C7: once the mask penalty is added, every score is
\* (raw + mask * (0.5 - softmax(margin))) / sqrt(size_per_head)
\* + (1 - mask) * -10000, and the penalty of a position with mask 1 is 0.
C7_ScoreOrder ==
  att_pc \in {"softmax", "returned"} =>
    \A i, j \in 1..from_seq_length :
      LET mask == attention_mask[1][i][j]
          raw == query_layer[i] * key_layer[j] * Unit
          bias == mask * (Half - SoftmaxRow([x \in 1..from_seq_length |->
                                               margin[i][x] * Unit], Unit)[j])
      IN /\ attention_scores[i][j] =
              ((raw + bias) \div SqrtOf(size_per_head))
                + (1 - mask) * MaskPenalty * Unit
         /\ mask = 1 => adder[i][j] = 0

\* C7 witness: a call with head width 4, an attendable position with a raw
\* score and a bias that are not zero, and a masked position, has returned
C7_Witness ==
  /\ att_pc = "returned"
  /\ size_per_head = 4
  /\ from_seq_length = 2
  /\ attention_mask[1][1][1] = 1
  /\ attention_mask[1][1][2] = 0
  /\ query_layer[1] * key_layer[1] # 0
  /\ marg_dist[1][1] # 0

\* C8 (as claimed): in a sequence that has an attendable position, every
\* key position whose input mask is 0 gets a probability below epsilon in
\* every row, padding rows included.
C8_MaskedNearZero ==
  (att_pc = "returned" /\ \E j \in 1..to_seq_length : input_mask[1][j] = 1)
  => \A i \in 1..from_seq_length :
       \A j \in 1..to_seq_length :
         input_mask[1][j] = 0 => attention_probs[i][j] < Epsilon

(* ======================== claims: utility functions ==================== *)
\* C11: dropout(x, p) returns x itself whenever p is None or 0.0, and
\* applies tf.nn.dropout to x (keep probability 1 - p) for every other p.
C11_DropoutIdentity ==
  (util_fn = "dropout" /\ util_pc = "returned")
  => LET x == util_args.input_tensor
         p == util_args.dropout_prob
     IN IF p = NoProb \/ p = 0
          THEN util_result = x
          ELSE /\ util_result.op = "tf.nn.dropout"
               /\ util_result.input = x
               /\ util_result.keep_prob = 100 - p

\* C11 witness: a call with probability 0.0 has returned its input
C11_Witness ==
  /\ util_fn = "dropout"
  /\ util_pc = "returned"
  /\ util_args.dropout_prob = 0
  /\ util_result = util_args.input_tensor

\* C12: BertModel never changes the caller's configuration object; the
\* private copy is written only at the start of the construction: it is the
\* caller's configuration when is_training is true and has both dropout
\* rates 0.0 when it is false; the post-processed embeddings and every
\* transformer layer use the rates of the private copy.
C12_ConfigUntouched ==
  /\ [][caller_config' = caller_config]_vars
  /\ [][pc # "start" => config' = config]_vars
  /\ [] ( (entry = "BertModel" /\ pc # "start")
          => /\ config.hidden_dropout_prob =
                  IF is_training THEN caller_config.hidden_dropout_prob ELSE 0
             /\ config.attention_probs_dropout_prob =
                  IF is_training
                    THEN caller_config.attention_probs_dropout_prob
                    ELSE 0
             /\ [config EXCEPT !.hidden_dropout_prob = 0,
                               !.attention_probs_dropout_prob = 0]
                  = [caller_config EXCEPT !.hidden_dropout_prob = 0,
                                          !.attention_probs_dropout_prob = 0]
             /\ (pc \in AfterPostprocess /\ LayerDef(0))
                  => IF is_training
                       THEN /\ embedding_output.op = "tf.nn.dropout"
                            /\ embedding_output.keep_prob =
                                 100 - caller_config.hidden_dropout_prob
                       ELSE embedding_output.op = "layer_norm"
             /\ \A k \in 1..Len(all_layer_outputs) :
                  /\ all_layer_outputs[k].hidden_dropout_prob =
                       IF is_training
                         THEN caller_config.hidden_dropout_prob
                         ELSE 0
                  /\ all_layer_outputs[k].attention_probs_dropout_prob =
                       IF is_training
                         THEN caller_config.attention_probs_dropout_prob
                         ELSE 0 )

\* C12 witness: an evaluation model is complete, its rates zero, the
\* caller's rates as configured
C12_Witness ==
  /\ entry = "BertModel"
  /\ ~is_training
  /\ pc = "done"
  /\ pooled_output.op = "dense_tanh"
  /\ config.hidden_dropout_prob = 0
  /\ config.attention_probs_dropout_prob = 0
  /\ caller_config.hidden_dropout_prob = DefaultDropoutProb
  /\ caller_config.attention_probs_dropout_prob = OtherDropoutProb

\* the rank of the tensor of an assert_rank / get_shape_list call is the
\* expected integer, or a member of the expected list
RankIsExpected ==
  LET actual_rank == Len(util_args.tensor.shape)
      er == util_args.expected_rank
  IN \/ er.kind = "int" /\ actual_rank = er.rank
     \/ er.kind = "list" /\ \E k \in DOMAIN er.ranks : er.ranks[k] = actual_rank

\* C18: assert_rank, and get_shape_list when expected_rank is given, raise
\* ValueError exactly when the rank is not the expected integer or not in
\* the expected list, and otherwise return (None, the shape); BertModel given
\* input_ids of a rank other than 2 ends in ValueError at its first step,
\* with no embedding, mask or layer created, and input_ids of rank 2 passes
\* that step.
C18_RankChecked ==
  /\ (util_fn = "assert_rank" /\ util_pc = "returned")
       => IF RankIsExpected
            THEN util_result = Returned(<< >>)
            ELSE util_result = Raised({"ValueError"})
  /\ (util_fn = "get_shape_list" /\ util_pc = "returned")
       => IF util_args.expected_rank.kind = "none" \/ RankIsExpected
            THEN util_result = Returned(util_args.tensor.shape)
            ELSE util_result = Raised({"ValueError"})
  /\ (entry = "BertModel" /\ Len(input_shape) # 2)
       => /\ pc \in {"start", "error"}
          /\ pc = "error" => error = "ValueError"
          /\ embedding_output = NoTensor
          /\ attention_mask = None
          /\ all_layer_outputs = << >>
          /\ pooled_output = NoTensor
  /\ (entry = "BertModel" /\ Len(input_shape) = 2 /\ pc = "error")
       => embedding_output # NoTensor

\* C18 witness: BertModel has rejected input_ids of rank 1
C18_Witness ==
  /\ entry = "BertModel"
  /\ Len(input_shape) = 1
  /\ pc = "error"
  /\ error = "ValueError"
  /\ embedding_output = NoTensor

\* C19: reshape_to_matrix raises ValueError for a rank below 2, returns a
\* rank-2 input itself, and otherwise returns a rank-2 tensor of the same
\* width; reshape_from_matrix applied to its result and the original shape s
\* gives a tensor of shape s with the element of the original at every index.
C19_RoundTrip ==
  (util_fn = "reshape_to_matrix" /\ util_pc \in {"returned", "restored"})
  => LET x == util_args.input_tensor
         s == x.shape
     IN /\ (util_pc = "returned" /\ Len(s) < 2)
             => util_result = Raised({"ValueError"})
        /\ (util_pc = "returned" /\ Len(s) = 2) => util_result = x
        /\ (util_pc = "returned" /\ Len(s) > 2)
             => /\ Len(util_result.shape) = 2
                /\ util_result.shape[2] = s[Len(s)]
                /\ ProductOf(util_result.shape) = ProductOf(s)
        /\ util_pc = "restored"
             => /\ util_result.shape = s
                /\ \A idx \in Indices(s) : ElementAt(util_result, idx) = x.at[idx]

\* C19 witness: a rank-3 tensor with more than one row and column has been
\* flattened and restored
C19_Witness ==
  /\ util_fn = "reshape_to_matrix"
  /\ util_pc = "restored"
  /\ Len(util_args.input_tensor.shape) = 3
  /\ \A k \in 1..3 : util_args.input_tensor.shape[k] > 1
  /\ util_result.op = "reshape"
  /\ util_result.input.op = "reshape"

\* the channels a post-processed tensor sums: the operand of its layer
\* normalization
SummedChannels(t) ==
  IF t.op = "tf.nn.dropout" THEN t.input.input.channels ELSE t.input.channels

\* layer normalization was applied to the sum, and dropout (if any) to the
\* normalized tensor
NormalizedThenDropout(t, dropout_prob) ==
  IF dropout_prob = 0
    THEN t.op = "layer_norm" /\ t.input.op = "sum"
    ELSE /\ t.op = "tf.nn.dropout"
         /\ t.keep_prob = 100 - dropout_prob
         /\ t.input.op = "layer_norm"
         /\ t.input.input.op = "sum"

\* C20: a call of embedding_postprocessor that returns has added to its
\* input exactly the channels whose flags are true (token type, position,
\* entity), has normalized the sum and has applied dropout to the normalized
\* tensor; BertModel's post-processed embeddings sum the word and cluster
\* embeddings, the token-type channel iff layer_def[2], the position channel
\* iff layer_def[3], and never the entity channel.
C20_ChannelsByFlag ==
  /\ ( /\ util_fn = "embedding_postprocessor"
       /\ util_pc = "returned"
       /\ util_result.op # "raise" )
       => /\ NormalizedThenDropout(util_result, util_args.dropout_prob)
          /\ "input_tensor" \in SummedChannels(util_result)
          /\ "token_type_embeddings" \in SummedChannels(util_result)
               <=> util_args.use_token_type
          /\ "position_embeddings" \in SummedChannels(util_result)
               <=> util_args.use_position_embeddings
          /\ "entity_embeddings" \in SummedChannels(util_result)
               <=> util_args.use_entity_embedding
  /\ (entry = "BertModel" /\ LayerDef(0) /\ pc \in AfterPostprocess)
       => /\ NormalizedThenDropout(embedding_output, config.hidden_dropout_prob)
          /\ {"word_embeddings", "cluster_embeddings"}
               \subseteq SummedChannels(embedding_output)
          /\ "token_type_embeddings" \in SummedChannels(embedding_output)
               <=> LayerDef(2)
          /\ "position_embeddings" \in SummedChannels(embedding_output)
               <=> LayerDef(3)
          /\ "entity_embeddings" \notin SummedChannels(embedding_output)
  /\ (entry = "BertModel" /\ pc = "postprocess")
       => /\ embedding_output.op = "sum"
          /\ embedding_output.channels = {"word_embeddings", "cluster_embeddings"}

\* C20 witness: a direct call has added the entity and position channels
\* and not the token-type channel, with dropout after the normalization
C20_Witness ==
  /\ util_fn = "embedding_postprocessor"
  /\ util_pc = "returned"
  /\ util_result.op = "tf.nn.dropout"
  /\ util_args.use_entity_embedding
  /\ util_args.use_position_embeddings
  /\ ~util_args.use_token_type
  /\ SummedChannels(util_result) =
       {"input_tensor", "position_embeddings", "entity_embeddings"}

\* the lookup of the call that returned holds the table's row ids[b][l] at
\* every position (b, l) of its [B, L, H] output
HoldsRows(ids, table) ==
  /\ util_result.shape = << Len(ids), Len(ids[1]), util_args.embedding_size >>
  /\ \A b \in DOMAIN ids : \A l \in DOMAIN ids[b] :
       /\ Len(util_result.output[b][l]) = util_args.embedding_size
       /\ util_result.output[b][l] = table[ids[b][l]]

\* C13: for ids in [0, V), embedding_lookup (and cluster_embedding_lookup
\* over the cluster table) returns a [B, L, H] tensor that holds row
\* ids[b][l] of the table at every position (b, l), and returns the same
\* tensor with use_one_hot_embeddings true and false.
C13_LookupPathsAgree ==
  /\ ( /\ util_fn = "embedding_lookup"
       /\ util_pc = "returned"
       /\ IdsInRange(util_args.input_ids, util_args.vocab_size) )
       => /\ HoldsRows(util_args.input_ids, util_args.embedding_table)
          /\ embedding_lookup(util_args.input_ids, util_args.vocab_size,
                              util_args.embedding_size,
                              util_args.embedding_table, TRUE)
               = embedding_lookup(util_args.input_ids, util_args.vocab_size,
                                  util_args.embedding_size,
                                  util_args.embedding_table, FALSE)
  /\ ( /\ util_fn = "cluster_embedding_lookup"
       /\ util_pc = "returned"
       /\ IdsInRange(util_args.cluster_ids, util_args.cluster_size) )
       => /\ HoldsRows(util_args.cluster_ids, util_args.cluster_embedding_table)
          /\ embedding_lookup(util_args.cluster_ids, util_args.cluster_size,
                              util_args.embedding_size,
                              util_args.cluster_embedding_table, TRUE)
               = embedding_lookup(util_args.cluster_ids,
                                  util_args.cluster_size,
                                  util_args.embedding_size,
                                  util_args.cluster_embedding_table, FALSE)

\* C13 witness: the one-hot path has looked up a [2, 2] tensor of ids that
\* names different rows
C13_Witness ==
  /\ util_fn = "embedding_lookup"
  /\ util_pc = "returned"
  /\ util_args.use_one_hot_embeddings
  /\ Len(util_args.input_ids) = 2
  /\ Len(util_args.input_ids[1]) = 2
  /\ util_args.input_ids[1][1] # util_args.input_ids[2][2]
  /\ util_result.output[2][2] =
       util_args.embedding_table[util_args.input_ids[2][2]]

BadRow(line, embedding_size) ==
  \/ line.nfields < 2
  \/ \E k \in DOMAIN line.vec : line.vec[k] = BadToken
  \/ Len(line.vec) # embedding_size

\* C15 (as claimed): static_initializer raises, and returns no table,
\* whenever a line of the file is malformed or its vector has not
\* embedding_size entries.
C15_BadRowsRaise ==
  ( /\ util_fn = "static_initializer"
    /\ util_pc = "returned"
    /\ \E k \in DOMAIN util_args.feature_locale :
         BadRow(util_args.feature_locale[k], util_args.embedding_size) )
  => util_result.op = "raise"

C21_NoMaskNoError ==
  ( /\ util_fn = "attention_layer"
    /\ util_pc = "returned"
    /\ util_args.attention_mask = NoTensor
    /\ Len(util_args.from_tensor.shape) = Len(util_args.to_tensor.shape)
    /\ (Len(util_args.from_tensor.shape) = 2 => util_args.batch_size # NoSize) )
  => /\ util_result.op # "raise"
     /\ util_result.shape \in
          {<< util_args.from_tensor.shape[1], util_args.from_tensor.shape[2],
              util_args.num_attention_heads * util_args.size_per_head >>,
           << util_args.from_tensor.shape[1],
              util_args.num_attention_heads * util_args.size_per_head >>}

\* from_seq_length and to_seq_length of an attention_layer call
FromLength ==
  IF Len(util_args.from_tensor.shape) = 3
    THEN util_args.from_tensor.shape[2] ELSE util_args.from_seq_length

ToLength ==
  IF Len(util_args.to_tensor.shape) = 3
    THEN util_args.to_tensor.shape[2] ELSE util_args.to_seq_length

\* C22 (as claimed): attention_layer called with a from_tensor [B, F, *]
\* and a to_tensor [B, T, *] of different lengths F # T and a mask
\* [B, F, T] raises no error, takes the softmax of scores of shape
\* [B, N, F, T] and returns a tensor of shape [B, F, N*H] ([B*F, N*H] when
\* do_return_2d_tensor is true).
C22_DifferentLengths ==
  ( /\ util_fn = "attention_layer"
    /\ util_pc = "returned"
    /\ util_args.attention_mask # NoTensor
    /\ Len(util_args.from_tensor.shape) = 3
    /\ Len(util_args.to_tensor.shape) = 3
    /\ FromLength # ToLength )
  => /\ util_result.op # "raise"
     /\ util_result.attention_scores =
          << util_args.from_tensor.shape[1], util_args.num_attention_heads,
             FromLength, ToLength >>
     /\ util_result.shape =
          IF util_args.do_return_2d_tensor
            THEN << util_args.from_tensor.shape[1] * FromLength,
                    util_args.num_attention_heads * util_args.size_per_head >>
            ELSE << util_args.from_tensor.shape[1], FromLength,
                    util_args.num_attention_heads * util_args.size_per_head >>

(* ======================== claims: the distance bias ==================== *)
\* the margin matrix of a returned distance-bias computation holds the
\* absolute distances: symmetric, non-negative, zero exactly on the diagonal
MarginIsDistance ==
  LET n == util_args.from_seq_length
      m == util_result.margin
  IN \A i \in 1..n : \A j \in 1..n :
       /\ m[i][j] = IF j >= i THEN j - i ELSE i - j
       /\ m[i][j] = m[j][i]
       /\ m[i][j] >= 0
       /\ (m[i][j] = 0 <=> i = j)

\* C23 (as claimed): for every sequence length the margin matrix holds the
\* absolute distances |j - i|, and within every row the bias
\* 0.5 - softmax(row) is strictly smaller for the key position that is
\* farther from the query position.
C23_StrictlySmallerWhenFarther ==
  (util_fn = "marg_dist" /\ util_pc = "returned")
  => /\ MarginIsDistance
     /\ \A i \in 1..util_args.from_seq_length :
          \A j1 \in 1..util_args.from_seq_length :
            \A j2 \in 1..util_args.from_seq_length :
              util_result.margin[i][j1] > util_result.margin[i][j2]
                => util_result.bias[i][j1] < util_result.bias[i][j2]

\* C23 (amended): for every sequence length the margin matrix holds the
\* absolute distances |j - i| (symmetric, non-negative, zero exactly on the
\* diagonal), and within every row the bias 0.5 - softmax(row) is never
\* larger for the key position that is farther from the query position; it
\* is strictly smaller for sequence lengths up to 19, and from length 20 on
\* the float32 result is exactly 0.5 for the two key positions nearest to
\* the first query position alike.
C23_SmallerWhenFarther ==
  (util_fn = "marg_dist" /\ util_pc = "returned")
  => /\ MarginIsDistance
     /\ \A i \in 1..util_args.from_seq_length :
          \A j1 \in 1..util_args.from_seq_length :
            \A j2 \in 1..util_args.from_seq_length :
              util_result.margin[i][j1] > util_result.margin[i][j2]
                => /\ util_result.bias[i][j1] <= util_result.bias[i][j2]
                   /\ util_args.from_seq_length <= 19
                        => util_result.bias[i][j1] < util_result.bias[i][j2]
     /\ util_args.from_seq_length >= 20
          => /\ util_result.bias[1][1] = HalfUlps
             /\ util_result.bias[1][2] = HalfUlps

\* C23 witness: the bias of a sequence of 20 positions was computed, its
\* first row falling from 0.5 at the query position to below zero at the
\* farthest key position.
C23_Witness ==
  /\ util_fn = "marg_dist"
  /\ util_pc = "returned"
  /\ util_args.from_seq_length = 20
  /\ util_result.bias[1][1] = HalfUlps
  /\ util_result.bias[1][20] < 0

(* ======================== claims: static_initializer, line count ======= *)
\* C30: for a file whose lines all have a second field of embedding_size
\* numbers, static_initializer with fewer lines than cluster_size returns
\* normally and every row without a line is all zeros; with more lines
\* than cluster_size it raises IndexError, the first cluster_size lines
\* alone being accepted and the outcome being that of the file cut after
\* its first extra line; and every table returned, for any file, has shape
\* [cluster_size, embedding_size].
C30_LineCountUnchecked ==
  (util_fn = "static_initializer" /\ util_pc = "returned")
  => LET lines == util_args.feature_locale
         cluster_size == util_args.cluster_size
         embedding_size == util_args.embedding_size
         Upto(n) ==
           static_initializer(SubSeq(lines, 1, n), cluster_size, embedding_size)
     IN /\ (\A k \in DOMAIN lines : ~BadRow(lines[k], embedding_size))
             => /\ Len(lines) < cluster_size
                     => /\ util_result.op # "raise"
                        /\ \A k \in Len(lines)..(cluster_size - 1) :
                             util_result.rows[k] =
                               [h \in 1..embedding_size |-> 0]
                /\ Len(lines) > cluster_size
                     => /\ util_result = Raised({"IndexError"})
                        /\ Upto(cluster_size).op # "raise"
                        /\ Upto(cluster_size + 1) = util_result
        /\ util_result.op # "raise"
             => /\ util_result.shape = << cluster_size, embedding_size >>
                /\ DOMAIN util_result.rows = 0..(cluster_size - 1)
                /\ \A k \in 0..(cluster_size - 1) :
                     Len(util_result.rows[k]) = embedding_size

\* C30 witness: a file of one line gave a table of three rows, the last
\* two all zeros, and a file of two lines failed for a table of one row
\* (two calls)
C30_Witness ==
  /\ util_fn = "static_initializer"
  /\ util_pc = "returned"
  /\ \A k \in DOMAIN util_args.feature_locale :
       ~BadRow(util_args.feature_locale[k], util_args.embedding_size)
  /\ \/ /\ Len(util_args.feature_locale) = 1
        /\ util_args.cluster_size = 3
        /\ util_result.op = "static_embed"
        /\ util_result.rows[0] = util_args.feature_locale[1].vec
        /\ util_result.rows[2] = << 0, 0 >>
     \/ /\ Len(util_args.feature_locale) = 2
        /\ util_args.cluster_size = 1
        /\ util_result = Raised({"IndexError"})

(* ======================== claims: ids outside the table ================ *)
\* the ids, the table size and the different outcomes of a lookup call
LookupIds ==
  IF util_fn = "embedding_lookup" THEN util_args.input_ids
  ELSE IF util_fn = "cluster_embedding_lookup" THEN util_args.cluster_ids
  ELSE util_args.token_type_ids

LookupDepth ==
  IF util_fn = "embedding_lookup" THEN util_args.vocab_size
  ELSE IF util_fn = "cluster_embedding_lookup" THEN util_args.cluster_size
  ELSE util_args.token_type_vocab_size

\* the call went down the one-hot path
OneHotPath ==
  util_fn = "token_type_embeddings" \/ util_args.use_one_hot_embeddings

\* C29: on the one-hot path the lookup of the word table, of the cluster
\* table and of the token type table raises nothing whatever the ids, and
\* its output at every position whose id lies outside [0, V) is the zero
\* vector.
C29_StrayIdsGiveZeros ==
  ( /\ util_fn \in {"embedding_lookup", "cluster_embedding_lookup",
                    "token_type_embeddings"}
    /\ util_pc = "returned"
    /\ OneHotPath )
  => /\ util_result.op # "raise"
     /\ \A b \in DOMAIN LookupIds : \A l \in DOMAIN LookupIds[b] :
          (LookupIds[b][l] < 0 \/ LookupIds[b][l] >= LookupDepth)
            => util_result.output[b][l] =
                 [h \in 1..util_args.embedding_size |-> 0]

\* C29 witness: the one-hot token type lookup returned for the ids [3, 1]
\* against a table of 3 rows: zeros for the id 3, row 1 for the id 1
C29_Witness ==
  /\ util_fn = "token_type_embeddings"
  /\ util_pc = "returned"
  /\ util_args.token_type_ids = << << 3, 1 >> >>
  /\ util_args.token_type_vocab_size = 3
  /\ util_result.output[1][1] = << 0, 0 >>
  /\ util_result.output[1][2] = util_args.token_type_table[1]
  /\ util_result.output[1][2] # << 0, 0 >>

(* ======================== claims: the terminator lookup ================ *)
\* the positions of the terminator in sequence b, and their number over the
\* batch
TerminatorAt(b) ==
  {l \in DOMAIN util_args.input_ids[b] :
     util_args.input_ids[b][l] = TerminatorId}

RECURSIVE TerminatorsUpTo(_)
TerminatorsUpTo(b) ==
  IF b = 0 THEN 0 ELSE Cardinality(TerminatorAt(b)) + TerminatorsUpTo(b - 1)

BatchSize == Len(util_args.input_ids)

\* position << b, l >> comes before << c, m >> in row-major order
RowMajorBefore(p, q) == p[1] < q[1] \/ (p[1] = q[1] /\ p[2] < q[2])

\* C28: the terminator lookup is well-defined exactly when the terminator
\* occurs batch_size times over the whole batch; it then holds one hidden
\* vector per occurrence, in row-major order of the occurrences; row b is
\* the terminator vector of sequence b when every sequence holds the
\* terminator exactly once, and some row is not when some sequence does not.
C28_OneRowPerOccurrence ==
  (util_fn = "terminator_lookup" /\ util_pc = "returned")
  => LET total == TerminatorsUpTo(BatchSize)
         hidden == util_args.sequence_output
         places == {p \in (1..BatchSize) \X (1..Len(util_args.input_ids[1])) :
                      p[2] \in TerminatorAt(p[1])}
         Aligned(b) == \E l \in TerminatorAt(b) :
                         util_result.rows[b] = hidden[b][l]
     IN /\ (util_result.op = "raise") <=> (total # BatchSize)
        /\ (util_result.op # "raise")
             => /\ Len(util_result.rows) = total
                /\ util_result.shape = << BatchSize, Len(hidden[1][1]) >>
                /\ \E order \in [1..total -> places] :
                     /\ \A n \in 1..total : \A m \in 1..total :
                          n < m => RowMajorBefore(order[n], order[m])
                     /\ \A n \in 1..total :
                          util_result.rows[n] =
                            hidden[order[n][1]][order[n][2]]
                /\ (\A b \in 1..BatchSize : Cardinality(TerminatorAt(b)) = 1)
                     => \A b \in 1..BatchSize : Aligned(b)
                /\ (\E b \in 1..BatchSize : Cardinality(TerminatorAt(b)) # 1)
                     => \E b \in 1..BatchSize : ~Aligned(b)

\* C28 witness: the first sequence holds no terminator and the second holds
\* two; the lookup returned, and its first row is a vector of the second
\* sequence
C28_Witness ==
  /\ util_fn = "terminator_lookup"
  /\ util_pc = "returned"
  /\ util_args.input_ids =
       << << 7, 7 >>, << TerminatorId, TerminatorId >> >>
  /\ util_result.op # "raise"
  /\ util_result.rows = << HiddenAt(2, 1), HiddenAt(2, 2) >>

(* ======================== claims: no hidden layer ====================== *)
\* C26: with num_hidden_layers = 0, transformer_model called with
\* do_return_all_layers true returns the empty list and BertModel, having
\* taken that list, never gets past the selection of its last element (it
\* builds no sequence output and no pooler); called with
\* do_return_all_layers false it returns a tensor of the input's shape, each
\* element of which is the input's element at the same index.
C26_NoHiddenLayer ==
  (config.num_hidden_layers = 0)
  => /\ (entry = "transformer_model" /\ pc = "done")
          => IF do_return_all_layers
               THEN Len(final_outputs) = 0
               ELSE /\ final_outputs.shape = embedding_output.shape
                    /\ \A idx \in Indices(embedding_output.shape) :
                         OriginOf(final_outputs, idx) =
                           [tensor |-> embedding_output, at |-> idx]
     /\ (entry = "BertModel")
          => /\ pc = "sequence_output" => Len(final_outputs) = 0
             /\ pc # "pooler"
             /\ pc = "done" => ~LayerDef(0)
             /\ sequence_output = NoTensor
             /\ pooled_output = NoTensor
             /\ (pc = "error" /\ layer_idx = 0 /\ attention_head_size # 0
                   /\ prev_output # NoTensor)
                  => error = "IndexError"

\* C26 witness: a BertModel of no hidden layer has failed with IndexError
\* after transformer_model returned
C26_Witness ==
  /\ entry = "BertModel"
  /\ config.num_hidden_layers = 0
  /\ pc = "error"
  /\ error = "IndexError"
  /\ prev_output # NoTensor
  /\ Len(all_encoder_layers) = 0

\* a direct call without layers returned its input, all three dimensions
\* above 1
C26_WitnessDirect ==
  /\ entry = "transformer_model"
  /\ config.num_hidden_layers = 0
  /\ ~do_return_all_layers
  /\ pc = "done"
  /\ final_outputs.shape = << 2, 3, 4 >>

(* ======================== claims: BertConfig and cluster_size ========== *)
\* C27: a BertConfig made by the constructor has no cluster_size attribute
\* (and the constructor refuses cluster_size as an argument); one made by
\* from_dict has it exactly when the dictionary has the key, holds the
\* dictionary's value for every key given and the constructor's default for
\* every other parameter (None for vocab_size, which has no default); and a
\* BertModel with layer_def[0] true whose configuration has no cluster_size
\* never gets past the cluster lookup: it ends in AttributeError unless the
\* rank check of input_ids stopped it before.
C27_ClusterSizeOnlyFromDict ==
  /\ (util_fn = "BertConfig" /\ util_pc = "returned")
       => IF util_result.op = "raise"
            THEN \/ "vocab_size" \notin DOMAIN util_args.kwargs
                 \/ "cluster_size" \in DOMAIN util_args.kwargs
            ELSE /\ "cluster_size" \notin DOMAIN util_result.attrs
                 /\ "cluster_size" \notin DOMAIN util_args.kwargs
                 /\ DOMAIN util_result.attrs = ConfigKeys
  /\ (util_fn = "from_dict" /\ util_pc = "returned")
       => /\ util_result.op # "raise"
          /\ ("cluster_size" \in DOMAIN util_result.attrs)
               <=> ("cluster_size" \in DOMAIN util_args.json_object)
          /\ \A k \in DOMAIN util_args.json_object :
               util_result.attrs[k] = util_args.json_object[k]
          /\ \A k \in ConfigKeys \ DOMAIN util_args.json_object :
               /\ k \in DOMAIN util_result.attrs
               /\ util_result.attrs[k] =
                    IF k = "vocab_size" THEN NoneValue ELSE ConfigDefaults[k]
  /\ (entry = "BertModel" /\ LayerDef(0) /\ config.cluster_size = NoAttr)
       => /\ pc \in {"start", "embeddings", "error"}
          /\ pc = "error"
               => \/ error = "AttributeError"
                  \/ error = "ValueError" /\ Len(input_shape) # 2
  /\ (entry = "BertModel" /\ pc \in {"postprocess"} \cup AfterPostprocess
        /\ LayerDef(0))
       => config.cluster_size # NoAttr

\* C27 witness: from_dict was given cluster_size and no hidden_size: the
\* instance has cluster_size 3 and hidden_size 768
C27_Witness ==
  /\ util_fn = "from_dict"
  /\ util_pc = "returned"
  /\ DOMAIN util_args.json_object = {"cluster_size", "vocab_size"}
  /\ util_result.attrs.cluster_size = 3
  /\ util_result.attrs.hidden_size = 768

\* a BertModel built from a configuration without cluster_size has failed
\* at the cluster lookup
C27_WitnessModel ==
  /\ entry = "BertModel"
  /\ config.cluster_size = NoAttr
  /\ pc = "error"
  /\ error = "AttributeError"

(* ======================== claims: accessors ============================ *)
\* the five output accessors
Accessors ==
  << get_pooled_output, get_sequence_output, get_all_encoder_layers,
     get_embedding_output, get_embedding_table >>

\* C25: a BertModel built with layer_def[0] false has no attribute assigned
\* and no stage output, and each of get_pooled_output, get_sequence_output,
\* get_all_encoder_layers, get_embedding_output and get_embedding_table
\* raises AttributeError on it; one built with layer_def[0] true that
\* completed returns a value from each of them.
C25_AccessorsNeedLayerDef0 ==
  (entry = "BertModel" /\ pc = "done")
  => IF LayerDef(0)
       THEN /\ \A k \in 1..5 : Accessors[k].op = "return"
            /\ get_pooled_output.value = pooled_output
            /\ pooled_output # NoTensor
            /\ sequence_output # NoTensor
            /\ embedding_output # NoTensor
            /\ Len(all_encoder_layers) > 0
       ELSE /\ self_attrs = {}
            /\ \A k \in 1..5 : Accessors[k] = Raised({"AttributeError"})
            /\ embedding_output = NoTensor
            /\ all_layer_outputs = << >>
            /\ sequence_output = NoTensor
            /\ pooled_output = NoTensor
            /\ error = "none"

\* C25 witness: a BertModel with layer_def[0] false and the other flags
\* true is complete and get_pooled_output fails on it
C25_Witness ==
  /\ entry = "BertModel"
  /\ pc = "done"
  /\ ~LayerDef(0)
  /\ LayerDef(2)
  /\ LayerDef(3)
  /\ get_pooled_output.op = "raise"

\* a complete BertModel with layer_def[0] true
C25_WitnessBuilt ==
  /\ entry = "BertModel"
  /\ pc = "done"
  /\ LayerDef(0)
  /\ get_embedding_table.op = "return"

(* ======================== claims: context arguments ==================== *)
\* C24: a BertModel built with the reference context arguments has the same
\* embedding output, encoder layer outputs, sequence output and pooled
\* output as the one built before it from the same other arguments and any
\* context_ids, context_mask, kernel_size and layer_def[1], and it
\* completes as the first did.
C24_ContextHasNoInfluence ==
  (prev_model # NoModel)
  => /\ pc # "error"
     /\ pc = "done"
          => /\ embedding_output = prev_model.embedding_output
             /\ all_encoder_layers = prev_model.all_encoder_layers
             /\ sequence_output = prev_model.sequence_output
             /\ pooled_output = prev_model.pooled_output

\* C24 witness: the second model, of two hidden layers, is complete; the
\* first had layer_def[1] on, an all-zero context_mask and other
\* context_ids and kernel_size
C24_Witness ==
  /\ prev_model # NoModel
  /\ pc = "done"
  /\ config.num_hidden_layers = 2
  /\ prev_model.layer_def[2]
  /\ ~layer_def[2]
  /\ prev_model.context_mask = << << 0, 0, 0 >>, << 0, 0, 0 >> >>
  /\ prev_model.context_ids # context_ids
  /\ prev_model.kernel_size # kernel_size
  /\ sub_attention_mask[1][1][1] = 1

====
